---- MODULE Spec2Model ----
(***************************************************************************)
(* Recommendation scoring engine of business-analyzer                      *)
(* (src/services/recommendation_engine.py).                                *)
(*                                                                         *)
(* Numbers: the Python code computes with the numeric values the database  *)
(* driver returns.  The model computes with exact rationals [n, d] in      *)
(* lowest terms with d > 0; close prices and revenues are integers (an     *)
(* amount in the smallest currency unit).  Floating-point rounding error   *)
(* is not modelled.                                                        *)
(***************************************************************************)
EXTENDS Integers, Sequences, FiniteSets, Bags, TLC

VARIABLES
    prices,      \* the list about to be passed to calculate_price_score
    scored,      \* the argument of the last call of calculate_price_score
    ps,          \* the value that call returned (NoValue before any call)
    statements,  \* the list passed to calculate_financial_score
    fs,          \* the value calculate_financial_score returned (or NoValue)
    today,       \* CURDATE(), a day number
    sentiment_rows, \* sentiment_analysis JOIN scraped_content, in table order
    sent_arg,    \* the ids passed to the last call of calculate_sentiment_score
    sent_ret,    \* the pair that call returned (or NoValue)
    stock_price,         \* table stock_price: company_id, date, close_price
    asset_price,         \* table asset_price: asset_id, date, price
    financial_statement, \* table financial_statement: company_id, period_end_date, revenue
    rec,         \* the last classification: function, subject id, result
    scores,      \* the sub-scores and confidence a classifier has computed
    blended,     \* the result a classifier built from them (or NoValue)
    company,     \* table company: the company_id of its rows, in listing order
    asset,       \* table asset: the asset_id of its rows, in listing order
    investment_recommendation, \* table investment_recommendation: the bag of committed rows
    cb,          \* the run of update_company_recommendations
    ab,          \* the run of update_asset_recommendations
    single,      \* the last call of update_single_company and what it returned
    runs         \* the number of task runs started

priceVars == <<prices, scored, ps>>
finVars == <<statements, fs>>
sentVars == <<today, sentiment_rows, sent_arg, sent_ret>>
recVars == <<stock_price, asset_price, financial_statement, rec>>
blendVars == <<scores, blended>>
taskVars == <<company, asset, investment_recommendation, cb, ab, single, runs>>
vars == <<priceVars, finVars, sentVars, recVars, blendVars, taskVars>>

(***************************************************************************)
(* Bounds of the model.                                                    *)
(***************************************************************************)
MaxPrice == 2      \* close prices range over -1 .. MaxPrice
MaxOlder == 1      \* points older than the 60 most recent that may be added

PriceVals == (0 - 1) .. MaxPrice
OlderPriceVals == {MaxPrice}

NoValue == [none |-> TRUE]
ZeroDivisionError == [exc |-> "ZeroDivisionError"]

\* SQL NULL and Python None for an id column or argument; ids start at 1
Null == 0

\* the price and statement tables are empty and nothing was classified
RecIdle ==
    /\ stock_price = <<>>
    /\ asset_price = <<>>
    /\ financial_statement = <<>>
    /\ rec = NoValue

\* a batch runner that has not been started
IdleBatch ==
    [pc |-> "idle", run |-> 0, subjects |-> <<>>, i |-> 1,
     updated_count |-> 0, rationale_result |-> NoValue, printed |-> <<>>,
     ret |-> NoValue]

\* no task has run
TaskIdle ==
    /\ company = <<>>
    /\ asset = <<>>
    /\ investment_recommendation = EmptyBag
    /\ cb = IdleBatch
    /\ ab = IdleBatch
    /\ single = NoValue
    /\ runs = 0

\* no sub-scores were computed
BlendIdle ==
    /\ scores = NoValue
    /\ blended = NoValue

\* no sentiment rows are stored and no sentiment call was made
SentIdle ==
    /\ today = 60
    /\ sentiment_rows = <<>>
    /\ sent_arg = NoValue
    /\ sent_ret = NoValue

(***************************************************************************)
(* Exact rational arithmetic standing for Python's numeric operators.      *)
(***************************************************************************)
Abs(x) == IF x < 0 THEN 0 - x ELSE x

RECURSIVE GCD(_, _)
GCD(a, b) == IF b = 0 THEN a ELSE GCD(b, a % b)

Rat(n, d) ==
    LET g == GCD(Abs(n), Abs(d))
        s == IF d < 0 THEN 0 - 1 ELSE 1
    IN  [n |-> (s * n) \div g, d |-> (s * d) \div g]

FromInt(i) == [n |-> i, d |-> 1]
IsNumber(x) == DOMAIN x = {"n", "d"}

RAdd(x, y) == Rat(x.n * y.d + y.n * x.d, x.d * y.d)
RSub(x, y) == Rat(x.n * y.d - y.n * x.d, x.d * y.d)
RMul(x, y) == Rat(x.n * y.n, x.d * y.d)
\* Python's "/": raises ZeroDivisionError when the divisor is 0
RDiv(x, y) == IF y.n = 0 THEN ZeroDivisionError ELSE Rat(x.n * y.d, x.d * y.n)
RLt(x, y) == x.n * y.d < y.n * x.d
RLe(x, y) == x.n * y.d <= y.n * x.d

\* Python's builtin min(a, b) and max(a, b): the first argument unless the
\* second is strictly smaller (larger)
pymin(a, b) == IF RLt(b, a) THEN b ELSE a
\* faulty variant: no lower clamp, max(0, x) yields x
pymax_second(a, b) == b
pymax(a, b) == IF RLt(a, b) THEN b ELSE a

(***************************************************************************)
(* Python list helpers.                                                    *)
(***************************************************************************)
\* s[lo:hi] of a Python list (0-based, hi exclusive, truncated at the end)
Slice(s, lo, hi) == SubSeq(s, lo + 1, IF hi < Len(s) THEN hi ELSE Len(s))

\* sum(r[f] for r in s); the list is summed by halves to keep the
\* evaluation shallow
RECURSIVE SumField(_, _)
SumField(s, f) ==
    IF s = <<>> THEN 0
    ELSE IF Len(s) = 1 THEN s[1][f]
    ELSE LET h == Len(s) \div 2
         IN  SumField(SubSeq(s, 1, h), f) + SumField(SubSeq(s, h + 1, Len(s)), f)

\* sorted(s, key=lambda x: x[f], reverse=True): a stable sort, so rows with
\* equal keys keep their input order.  Modelled as a stable three-way
\* partition around the key of the middle row.
\* faulty variant: the list is used in the order given
SortedDesc_unsorted(s, f) == s

RECURSIVE SortedDesc(_, _)
SortedDesc(s, f) ==
    IF Len(s) <= 1 THEN s
    ELSE LET pivot == s[(Len(s) + 1) \div 2][f]
         IN  SortedDesc(SelectSeq(s, LAMBDA r : r[f] > pivot), f)
               \o SelectSeq(s, LAMBDA r : r[f] = pivot)
               \o SortedDesc(SelectSeq(s, LAMBDA r : r[f] < pivot), f)

(***************************************************************************)
(* calculate_price_score(prices)                                           *)
(***************************************************************************)
\* line 31: the mean close price of the 30 most recent points
avg_p1(prices_sorted) ==
    RDiv(FromInt(SumField(Slice(prices_sorted, 0, 30), "close_price")), FromInt(30))

\* line 34: the mean close price of the 30 points before those
avg_p2(prices_sorted) ==
    RDiv(FromInt(SumField(Slice(prices_sorted, 30, 60), "close_price")), FromInt(30))

\* faulty variant: the zero guard on the prior average is missing
price_score_unguarded(p1, p2) ==
    LET price_change == RDiv(RSub(p1, p2), p2) IN
    IF price_change = ZeroDivisionError THEN ZeroDivisionError
    ELSE pymax(FromInt(0),
               pymin(FromInt(100), RAdd(FromInt(50), RMul(FromInt(50), price_change))))

\* faulty variant: the change is taken as (prior - recent) / prior
price_score_reversed(p1, p2) ==
    IF p2 = FromInt(0) THEN FromInt(50)
    ELSE
        LET price_change == RDiv(RSub(p2, p1), p2) IN
        IF price_change = ZeroDivisionError THEN ZeroDivisionError
        ELSE pymax(FromInt(0),
                   pymin(FromInt(100), RAdd(FromInt(50), RMul(FromInt(50), price_change))))

\* lines 36-46: guard, price change, score and clamp
price_score(p1, p2) ==
    IF p2 = FromInt(0) THEN FromInt(50)
    ELSE
        LET price_change == RDiv(RSub(p1, p2), p2) IN
        IF price_change = ZeroDivisionError THEN ZeroDivisionError
        ELSE pymax(FromInt(0),
                   pymin(FromInt(100), RAdd(FromInt(50), RMul(FromInt(50), price_change))))

\* faulty variant: the length guard only asks for a full recent window
calculate_price_score_30(p) ==
    IF Len(p) < 30 THEN FromInt(50)
    ELSE
        LET prices_sorted == SortedDesc(p, "date")
        IN  price_score(avg_p1(prices_sorted), avg_p2(prices_sorted))

calculate_price_score(p) ==
    IF Len(p) < 60 THEN FromInt(50)
    ELSE
        LET prices_sorted == SortedDesc(p, "date")
        IN  price_score(avg_p1(prices_sorted), avg_p2(prices_sorted))

(***************************************************************************)
(* Price series handed to the calculator.  The callers fetch them with     *)
(* ORDER BY date DESC, one point per day; the calculator itself accepts    *)
(* any list.                                                               *)
(***************************************************************************)
Point(d, c) == [date |-> d, close_price |-> c]

\* n daily points, most recent first: the 30 most recent close at a, the
\* next 15 at b1, the following 15 at b2
Series(n, a, b1, b2) ==
    [k \in 1 .. n |->
        Point(n - k + 1, IF k <= 30 THEN a ELSE IF k <= 45 THEN b1 ELSE b2)]

Lengths == {0, 1, 59, 60}

Reverse(s) == [k \in 1 .. Len(s) |-> s[Len(s) + 1 - k]]
SwapEnds(s) ==
    [k \in 1 .. Len(s) |->
        IF k = 1 THEN s[Len(s)] ELSE IF k = Len(s) THEN s[1] ELSE s[k]]

Dates(s) == {s[k].date : k \in 1 .. Len(s)}
MinDate(s) == CHOOSE d \in Dates(s) : \A e \in Dates(s) : d <= e

\* no financial-score call is under way
FinIdle == statements = <<>> /\ fs = NoValue

InitPrice ==
    /\ \E n \in Lengths, a \in PriceVals, b1 \in PriceVals, b2 \in PriceVals :
          prices = Series(n, a, b1, b2)
    /\ scored = <<>>
    /\ ps = NoValue
    /\ FinIdle
    /\ SentIdle
    /\ RecIdle
    /\ BlendIdle
    /\ TaskIdle

\* a call of calculate_price_score on the current list
CallPriceScore ==
    /\ ps' = calculate_price_score(prices)
    /\ scored' = prices
    /\ UNCHANGED <<prices, finVars, sentVars, recVars, blendVars, taskVars>>

\* the list is as the callers' queries return it: ORDER BY date DESC
IsQueryOrder(s) == \A k \in 1 .. Len(s) - 1 : s[k].date >= s[k + 1].date

\* the caller passes the fetched points in another order
ReorderReverse ==
    /\ Len(prices) >= 2
    /\ IsQueryOrder(prices)
    /\ prices' = Reverse(prices)
    /\ UNCHANGED <<scored, ps, finVars, sentVars, recVars, blendVars, taskVars>>

ReorderSwapEnds ==
    /\ Len(prices) >= 2
    /\ IsQueryOrder(prices)
    /\ prices' = SwapEnds(prices)
    /\ UNCHANGED <<scored, ps, finVars, sentVars, recVars, blendVars, taskVars>>

\* one more day of older history is present
AddOlder ==
    /\ Len(prices) >= 60
    /\ Len(prices) < 60 + MaxOlder
    /\ IsQueryOrder(prices)
    /\ \E c \in OlderPriceVals :
          prices' = Append(prices, Point(MinDate(prices) - 1, c))
    /\ UNCHANGED <<scored, ps, finVars, sentVars, recVars, blendVars, taskVars>>

\* the oldest point is absent
RemoveOldest ==
    /\ Len(prices) > 60
    /\ IsQueryOrder(prices)
    /\ prices' = SelectSeq(prices, LAMBDA r : r.date # MinDate(prices))
    /\ UNCHANGED <<scored, ps, finVars, sentVars, recVars, blendVars, taskVars>>

NextPrice ==
    \/ CallPriceScore
    \/ ReorderReverse
    \/ ReorderSwapEnds
    \/ AddOlder
    \/ RemoveOldest

SpecPrice == InitPrice /\ [][NextPrice]_vars

(***************************************************************************)
(* Two calls on 60-point series that differ only by higher recent prices.  *)
(***************************************************************************)
\* the m most recent points of a list in query order close one unit higher
Raised(s, m) ==
    [k \in 1 .. Len(s) |->
        IF k <= m THEN Point(s[k].date, s[k].close_price + 1) ELSE s[k]]

InitMono ==
    /\ \E a \in PriceVals, b1 \in PriceVals, b2 \in PriceVals :
          prices = Series(60, a, b1, b2)
    /\ scored = <<>>
    /\ ps = NoValue
    /\ FinIdle
    /\ SentIdle
    /\ RecIdle
    /\ BlendIdle
    /\ TaskIdle

RaiseRecent ==
    /\ Len(prices) = 60
    /\ IsQueryOrder(prices)
    /\ \E m \in {1, 30} :
          /\ \A k \in 1 .. m : prices[k].close_price < MaxPrice
          /\ prices' = Raised(prices, m)
    /\ UNCHANGED <<scored, ps, finVars, sentVars, recVars, blendVars, taskVars>>

NextMono ==
    \/ CallPriceScore
    \/ RaiseRecent
    \/ ReorderReverse

SpecMono == InitMono /\ [][NextMono]_vars

(***************************************************************************)
(* calculate_financial_score(statements)                                   *)
(***************************************************************************)
\* faulty variant: the zero guard on the previous revenue is missing
financial_score_unguarded(r_current, r_previous) ==
    LET growth == RDiv(RMul(FromInt(50), RSub(FromInt(r_current), FromInt(r_previous))),
                       FromInt(r_previous)) IN
    IF growth = ZeroDivisionError THEN ZeroDivisionError
    ELSE pymax(FromInt(0), pymin(FromInt(100), RAdd(FromInt(50), growth)))

\* lines 68-75: guard, score and clamp
financial_score(r_current, r_previous) ==
    IF r_previous = 0 THEN FromInt(50)
    ELSE
        LET growth == RDiv(RMul(FromInt(50), RSub(FromInt(r_current), FromInt(r_previous))),
                           FromInt(r_previous)) IN
        IF growth = ZeroDivisionError THEN ZeroDivisionError
        ELSE pymax(FromInt(0), pymin(FromInt(100), RAdd(FromInt(50), growth)))

\* faulty variant: the two statements are taken in the order given
calculate_financial_score_unsorted(st) ==
    IF Len(st) < 2 THEN FromInt(50)
    ELSE financial_score(st[1].revenue, st[2].revenue)

calculate_financial_score(st) ==
    IF Len(st) < 2 THEN FromInt(50)
    ELSE
        LET statements_sorted == SortedDesc(st, "period_end_date")
        IN  financial_score(statements_sorted[1].revenue, statements_sorted[2].revenue)

(***************************************************************************)
(* Statement lists handed to the calculator: up to MaxStatements           *)
(* statements with distinct period end dates, in any order.                *)
(***************************************************************************)
MaxStatements == 3
MaxRevenue == 3

Statement(d, r) == [period_end_date |-> d, revenue |-> r]
RevenueVals == (0 - 1) .. MaxRevenue
Periods == 1 .. MaxStatements

\* the lists of n statements with distinct period end dates
StatementLists(n) ==
    {st \in [1 .. n -> [period_end_date : Periods, revenue : RevenueVals]] :
        \A i \in 1 .. n : \A j \in 1 .. n :
            i # j => st[i].period_end_date # st[j].period_end_date}

\* no price-score call is under way
PriceIdle == prices = <<>> /\ scored = <<>> /\ ps = NoValue

InitFin ==
    /\ \E n \in 0 .. MaxStatements : statements \in StatementLists(n)
    /\ fs = NoValue
    /\ PriceIdle
    /\ SentIdle
    /\ RecIdle
    /\ BlendIdle
    /\ TaskIdle

CallFinancialScore ==
    /\ fs' = calculate_financial_score(statements)
    /\ UNCHANGED <<statements, priceVars, sentVars, recVars, blendVars, taskVars>>

NextFin == CallFinancialScore

SpecFin == InitFin /\ [][NextFin]_vars

(***************************************************************************)
(* calculate_sentiment_score(db, company_id, asset_id)                     *)
(***************************************************************************)
\* sum(r[f] for r in s) over a numeric column, summed by halves
RECURSIVE SumRat(_, _)
SumRat(s, f) ==
    IF s = <<>> THEN FromInt(0)
    ELSE IF Len(s) = 1 THEN s[1][f]
    ELSE LET h == Len(s) \div 2
         IN  RAdd(SumRat(SubSeq(s, 1, h), f), SumRat(SubSeq(s, h + 1, Len(s)), f))

\* col = %s in a WHERE clause: never true of NULL
SqlEq(col, param) == col # Null /\ param # Null /\ col = param

\* lines 90-100: the rows whose content has company_id = the id passed and
\* was published in the last 30 days; the id passed is company_id when it
\* is given and asset_id otherwise
fetch_sentiments(rows, day, company_id, asset_id) ==
    LET param == IF company_id # Null THEN company_id ELSE asset_id
    IN  SelectSeq(rows, LAMBDA r :
            SqlEq(r.company_id, param) /\ r.publish_date >= day - 30)

\* faulty variant: the empty case returns the scaled neutral score
sentiment_score_of_neutral50(sentiments) ==
    IF sentiments = <<>> THEN <<FromInt(50), FromInt(0)>>
    ELSE
        LET avg_sentiment == RDiv(SumRat(sentiments, "sentiment_score"),
                                  FromInt(Len(sentiments)))
            avg_confidence == RDiv(SumRat(sentiments, "confidence_level"),
                                   FromInt(Len(sentiments)))
        IN  <<RAdd(FromInt(50), RMul(FromInt(50), avg_sentiment)), avg_confidence>>

\* faulty variant: the scaled score is clamped to [0, 100]
sentiment_score_of_clamped(sentiments) ==
    IF sentiments = <<>> THEN <<FromInt(0), FromInt(0)>>
    ELSE
        LET avg_sentiment == RDiv(SumRat(sentiments, "sentiment_score"),
                                  FromInt(Len(sentiments)))
            avg_confidence == RDiv(SumRat(sentiments, "confidence_level"),
                                   FromInt(Len(sentiments)))
        IN  <<pymax(FromInt(0),
                    pymin(FromInt(100),
                          RAdd(FromInt(50), RMul(FromInt(50), avg_sentiment)))),
              avg_confidence>>

\* lines 102-112: the empty case, the two averages and the scaling
sentiment_score_of(sentiments) ==
    IF sentiments = <<>> THEN <<FromInt(0), FromInt(0)>>
    ELSE
        LET avg_sentiment == RDiv(SumRat(sentiments, "sentiment_score"),
                                  FromInt(Len(sentiments)))
            avg_confidence == RDiv(SumRat(sentiments, "confidence_level"),
                                   FromInt(Len(sentiments)))
        IN  <<RAdd(FromInt(50), RMul(FromInt(50), avg_sentiment)), avg_confidence>>

calculate_sentiment_score(rows, day, company_id, asset_id) ==
    sentiment_score_of(fetch_sentiments(rows, day, company_id, asset_id))

(***************************************************************************)
(* The stored sentiment rows.  Sentiment scores are the multiples of 1/2   *)
(* in [-1, 1] and confidence levels the multiples of 1/2 in [0, 1]; one    *)
(* row type lies outside these ranges, which the columns do not enforce.   *)
(***************************************************************************)
MaxRecords == 3

SentimentRow(c, d, s, cf) ==
    [company_id |-> c, publish_date |-> d, sentiment_score |-> s, confidence_level |-> cf]

SentimentVals == {Rat(k, 2) : k \in (0 - 2) .. 2}
ConfidenceVals == {Rat(k, 2) : k \in 0 .. 2}

\* rows of company 1 published on the first day of the window; a row out of
\* range; a row of company 2; a row of company 1 published the day before
\* the window; a row of content attached to no company
RowTypes(day) ==
    {SentimentRow(1, day - 30, s, cf) : s \in SentimentVals, cf \in ConfidenceVals}
    \cup {SentimentRow(1, day, FromInt(2), FromInt(2)),
          SentimentRow(2, day, FromInt(1), FromInt(1)),
          SentimentRow(1, day - 31, FromInt(1), FromInt(1)),
          SentimentRow(Null, day, FromInt(1), FromInt(1))}

\* the ids the callers pass: a company, or an asset
SentimentArgs ==
    {[company_id |-> 1, asset_id |-> Null],
     [company_id |-> 2, asset_id |-> Null],
     [company_id |-> Null, asset_id |-> 1]}

InitSent ==
    /\ SentIdle
    /\ PriceIdle
    /\ FinIdle
    /\ RecIdle
    /\ BlendIdle
    /\ TaskIdle

\* the analysis task stores a row, before the engine runs
InsertSentiment ==
    /\ sent_ret = NoValue
    /\ Len(sentiment_rows) < MaxRecords
    /\ \E r \in RowTypes(today) : sentiment_rows' = Append(sentiment_rows, r)
    /\ UNCHANGED <<today, sent_arg, sent_ret, priceVars, finVars, recVars, blendVars, taskVars>>

CallSentimentScore ==
    /\ \E a \in SentimentArgs :
          /\ sent_arg' = a
          /\ sent_ret' = calculate_sentiment_score(sentiment_rows, today,
                                                    a.company_id, a.asset_id)
    /\ UNCHANGED <<today, sentiment_rows, priceVars, finVars, recVars, blendVars, taskVars>>

NextSent ==
    \/ InsertSentiment
    \/ CallSentimentScore

SpecSent == InitSent /\ [][NextSent]_vars

(***************************************************************************)
(* The three classifiers.                                                  *)
(***************************************************************************)
\* faulty variant: the value is returned as computed
round2_unrounded(x) == x

\* round(x, 2): the nearest multiple of 1/100, a tie going to the even one
round2(x) ==
    LET n == x.n * 100
        q == n \div x.d
        r == 2 * (n - q * x.d)
        up == r > x.d \/ (r = x.d /\ q % 2 = 1)
    IN  Rat(IF up THEN q + 1 ELSE q, 100)

\* the database handed to the engine
db ==
    [stock_price |-> stock_price,
     asset_price |-> asset_price,
     financial_statement |-> financial_statement,
     sentiment_rows |-> sentiment_rows,
     today |-> today]

\* faulty variant: the query has no date condition
fetch_company_prices_unwindowed(d, company_id) ==
    LET rows == SelectSeq(d.stock_price, LAMBDA r : SqlEq(r.company_id, company_id))
    IN  SortedDesc([k \in 1 .. Len(rows) |-> Point(rows[k].date, rows[k].close_price)],
                   "date")

\* lines 127-136 and 205-214: SELECT date, close_price FROM stock_price
\* WHERE company_id = %s AND date >= CURDATE() - 60 days ORDER BY date DESC
fetch_company_prices(d, company_id) ==
    LET rows == SelectSeq(d.stock_price, LAMBDA r :
                    SqlEq(r.company_id, company_id) /\ r.date >= d.today - 60)
    IN  SortedDesc([k \in 1 .. Len(rows) |-> Point(rows[k].date, rows[k].close_price)],
                   "date")

\* lines 280-289: SELECT date, price AS close_price FROM asset_price
\* WHERE asset_id = %s AND date >= CURDATE() - 60 days ORDER BY date DESC
fetch_asset_prices(d, asset_id) ==
    LET rows == SelectSeq(d.asset_price, LAMBDA r :
                    SqlEq(r.asset_id, asset_id) /\ r.date >= d.today - 60)
    IN  SortedDesc([k \in 1 .. Len(rows) |-> Point(rows[k].date, rows[k].price)],
                   "date")

\* lines 139-149 and 217-227: SELECT period_end_date, revenue
\* FROM financial_statement WHERE company_id = %s
\* ORDER BY period_end_date DESC LIMIT 2
fetch_statements(d, company_id) ==
    LET rows == SelectSeq(d.financial_statement, LAMBDA r :
                    SqlEq(r.company_id, company_id))
        ordered == SortedDesc(
                     [k \in 1 .. Len(rows) |->
                         [period_end_date |-> rows[k].period_end_date,
                          revenue |-> rows[k].revenue]],
                     "period_end_date")
    IN  Slice(ordered, 0, 2)

\* faulty variant: the risk thresholds include their boundary
company_recommendation_no_ai_of_inclusive(p, f) ==
    LET investment_score == RAdd(RMul(Rat(5, 10), p), RMul(Rat(5, 10), f))
        recommendation_type ==
            IF RLe(FromInt(60), investment_score) THEN "invest"
            ELSE IF RLe(FromInt(40), investment_score) THEN "hold"
            ELSE "dont_invest"
        risk_level ==
            IF RLe(f, FromInt(30)) THEN "high"
            ELSE IF RLe(FromInt(60), f) THEN "low"
            ELSE "medium"
    IN  [recommendation_type |-> recommendation_type,
         investment_score |-> round2(investment_score),
         risk_level |-> risk_level,
         price_score |-> round2(p),
         financial_score |-> round2(f)]

\* lines 155-180
company_recommendation_no_ai_of(p, f) ==
    LET investment_score == RAdd(RMul(Rat(5, 10), p), RMul(Rat(5, 10), f))
        recommendation_type ==
            IF RLe(FromInt(60), investment_score) THEN "invest"
            ELSE IF RLe(FromInt(40), investment_score) THEN "hold"
            ELSE "dont_invest"
        risk_level ==
            IF RLt(f, FromInt(30)) THEN "high"
            ELSE IF RLt(FromInt(60), f) THEN "low"
            ELSE "medium"
    IN  [recommendation_type |-> recommendation_type,
         investment_score |-> round2(investment_score),
         risk_level |-> risk_level,
         price_score |-> round2(p),
         financial_score |-> round2(f)]

\* faulty variant: a confidence of exactly 0.5 selects the sentiment-heavy weights
company_recommendation_with_ai_of_gate(p, f, sc, avg_conf) ==
    LET investment_score ==
            IF RLe(Rat(5, 10), avg_conf)
            THEN RAdd(RAdd(RMul(Rat(3, 10), p), RMul(Rat(3, 10), f)), RMul(Rat(4, 10), sc))
            ELSE RAdd(RAdd(RMul(Rat(4, 10), p), RMul(Rat(4, 10), f)), RMul(Rat(2, 10), sc))
        risk_level ==
            IF RLt(sc, FromInt(40)) \/ RLt(f, FromInt(30)) THEN "high"
            ELSE IF RLt(FromInt(70), sc) /\ RLt(FromInt(60), f) THEN "low"
            ELSE "medium"
        recommendation_type ==
            IF RLe(FromInt(70), investment_score) THEN "invest"
            ELSE IF RLe(FromInt(55), investment_score) THEN "invest"
            ELSE IF RLe(FromInt(40), investment_score) THEN "hold"
            ELSE "dont_invest"
    IN  [recommendation_type |-> recommendation_type,
         investment_score |-> round2(investment_score),
         risk_level |-> risk_level,
         price_score |-> round2(p),
         financial_score |-> round2(f),
         sentiment_score |-> round2(sc),
         confidence_level |-> round2(avg_conf)]

\* faulty variant: the risk is high only when both sentiment and financial score are low
company_recommendation_with_ai_of_and(p, f, sc, avg_conf) ==
    LET investment_score ==
            IF RLt(Rat(5, 10), avg_conf)
            THEN RAdd(RAdd(RMul(Rat(3, 10), p), RMul(Rat(3, 10), f)), RMul(Rat(4, 10), sc))
            ELSE RAdd(RAdd(RMul(Rat(4, 10), p), RMul(Rat(4, 10), f)), RMul(Rat(2, 10), sc))
        risk_level ==
            IF RLt(sc, FromInt(40)) /\ RLt(f, FromInt(30)) THEN "high"
            ELSE IF RLt(FromInt(70), sc) /\ RLt(FromInt(60), f) THEN "low"
            ELSE "medium"
        recommendation_type ==
            IF RLe(FromInt(70), investment_score) THEN "invest"
            ELSE IF RLe(FromInt(55), investment_score) THEN "invest"
            ELSE IF RLe(FromInt(40), investment_score) THEN "hold"
            ELSE "dont_invest"
    IN  [recommendation_type |-> recommendation_type,
         investment_score |-> round2(investment_score),
         risk_level |-> risk_level,
         price_score |-> round2(p),
         financial_score |-> round2(f),
         sentiment_score |-> round2(sc),
         confidence_level |-> round2(avg_conf)]

\* faulty variant: the weights of the confident branch are 0.4, 0.4, 0.4
company_recommendation_with_ai_of_sum12(p, f, sc, avg_conf) ==
    LET investment_score ==
            IF RLt(Rat(5, 10), avg_conf)
            THEN RAdd(RAdd(RMul(Rat(4, 10), p), RMul(Rat(4, 10), f)), RMul(Rat(4, 10), sc))
            ELSE RAdd(RAdd(RMul(Rat(4, 10), p), RMul(Rat(4, 10), f)), RMul(Rat(2, 10), sc))
        risk_level ==
            IF RLt(sc, FromInt(40)) \/ RLt(f, FromInt(30)) THEN "high"
            ELSE IF RLt(FromInt(70), sc) /\ RLt(FromInt(60), f) THEN "low"
            ELSE "medium"
        recommendation_type ==
            IF RLe(FromInt(70), investment_score) THEN "invest"
            ELSE IF RLe(FromInt(55), investment_score) THEN "invest"
            ELSE IF RLe(FromInt(40), investment_score) THEN "hold"
            ELSE "dont_invest"
    IN  [recommendation_type |-> recommendation_type,
         investment_score |-> round2(investment_score),
         risk_level |-> risk_level,
         price_score |-> round2(p),
         financial_score |-> round2(f),
         sentiment_score |-> round2(sc),
         confidence_level |-> round2(avg_conf)]

\* lines 234-266
company_recommendation_with_ai_of(p, f, sc, avg_conf) ==
    LET investment_score ==
            IF RLt(Rat(5, 10), avg_conf)
            THEN RAdd(RAdd(RMul(Rat(3, 10), p), RMul(Rat(3, 10), f)), RMul(Rat(4, 10), sc))
            ELSE RAdd(RAdd(RMul(Rat(4, 10), p), RMul(Rat(4, 10), f)), RMul(Rat(2, 10), sc))
        risk_level ==
            IF RLt(sc, FromInt(40)) \/ RLt(f, FromInt(30)) THEN "high"
            ELSE IF RLt(FromInt(70), sc) /\ RLt(FromInt(60), f) THEN "low"
            ELSE "medium"
        recommendation_type ==
            IF RLe(FromInt(70), investment_score) THEN "invest"
            ELSE IF RLe(FromInt(55), investment_score) THEN "invest"
            ELSE IF RLe(FromInt(40), investment_score) THEN "hold"
            ELSE "dont_invest"
    IN  [recommendation_type |-> recommendation_type,
         investment_score |-> round2(investment_score),
         risk_level |-> risk_level,
         price_score |-> round2(p),
         financial_score |-> round2(f),
         sentiment_score |-> round2(sc),
         confidence_level |-> round2(avg_conf)]

\* faulty variant: a blend of exactly 55 is not yet an invest
asset_recommendation_of_strict55(p, sc, avg_conf) ==
    LET investment_score ==
            IF RLt(Rat(5, 10), avg_conf)
            THEN RAdd(RMul(Rat(5, 10), p), RMul(Rat(5, 10), sc))
            ELSE RAdd(RMul(Rat(7, 10), p), RMul(Rat(3, 10), sc))
        recommendation_type ==
            IF RLe(FromInt(70), investment_score) THEN "invest"
            ELSE IF RLt(FromInt(55), investment_score) THEN "invest"
            ELSE IF RLe(FromInt(40), investment_score) THEN "hold"
            ELSE "dont_invest"
        risk_level ==
            IF RLt(sc, FromInt(40)) THEN "high"
            ELSE IF RLt(FromInt(70), sc) THEN "low"
            ELSE "medium"
    IN  [recommendation_type |-> recommendation_type,
         investment_score |-> round2(investment_score),
         risk_level |-> risk_level,
         price_score |-> round2(p),
         sentiment_score |-> round2(sc),
         confidence_level |-> round2(avg_conf)]

\* faulty variant: the confidence gate is ignored, the weights are always 0.5 / 0.5
asset_recommendation_of_ungated(p, sc, avg_conf) ==
    LET investment_score == RAdd(RMul(Rat(5, 10), p), RMul(Rat(5, 10), sc))
        recommendation_type ==
            IF RLe(FromInt(70), investment_score) THEN "invest"
            ELSE IF RLe(FromInt(55), investment_score) THEN "invest"
            ELSE IF RLe(FromInt(40), investment_score) THEN "hold"
            ELSE "dont_invest"
        risk_level ==
            IF RLt(sc, FromInt(40)) THEN "high"
            ELSE IF RLt(FromInt(70), sc) THEN "low"
            ELSE "medium"
    IN  [recommendation_type |-> recommendation_type,
         investment_score |-> round2(investment_score),
         risk_level |-> risk_level,
         price_score |-> round2(p),
         sentiment_score |-> round2(sc),
         confidence_level |-> round2(avg_conf)]

\* faulty variant: below the gate the weights are 0.3 price and 0.7 sentiment
asset_recommendation_of_swapped(p, sc, avg_conf) ==
    LET investment_score ==
            IF RLt(Rat(5, 10), avg_conf)
            THEN RAdd(RMul(Rat(5, 10), p), RMul(Rat(5, 10), sc))
            ELSE RAdd(RMul(Rat(3, 10), p), RMul(Rat(7, 10), sc))
        recommendation_type ==
            IF RLe(FromInt(70), investment_score) THEN "invest"
            ELSE IF RLe(FromInt(55), investment_score) THEN "invest"
            ELSE IF RLe(FromInt(40), investment_score) THEN "hold"
            ELSE "dont_invest"
        risk_level ==
            IF RLt(sc, FromInt(40)) THEN "high"
            ELSE IF RLt(FromInt(70), sc) THEN "low"
            ELSE "medium"
    IN  [recommendation_type |-> recommendation_type,
         investment_score |-> round2(investment_score),
         risk_level |-> risk_level,
         price_score |-> round2(p),
         sentiment_score |-> round2(sc),
         confidence_level |-> round2(avg_conf)]

\* lines 295-326
asset_recommendation_of(p, sc, avg_conf) ==
    LET investment_score ==
            IF RLt(Rat(5, 10), avg_conf)
            THEN RAdd(RMul(Rat(5, 10), p), RMul(Rat(5, 10), sc))
            ELSE RAdd(RMul(Rat(7, 10), p), RMul(Rat(3, 10), sc))
        recommendation_type ==
            IF RLe(FromInt(70), investment_score) THEN "invest"
            ELSE IF RLe(FromInt(55), investment_score) THEN "invest"
            ELSE IF RLe(FromInt(40), investment_score) THEN "hold"
            ELSE "dont_invest"
        risk_level ==
            IF RLt(sc, FromInt(40)) THEN "high"
            ELSE IF RLt(FromInt(70), sc) THEN "low"
            ELSE "medium"
    IN  [recommendation_type |-> recommendation_type,
         investment_score |-> round2(investment_score),
         risk_level |-> risk_level,
         price_score |-> round2(p),
         sentiment_score |-> round2(sc),
         confidence_level |-> round2(avg_conf)]

\* an exception raised by a calculator propagates out of the classifier
calculate_company_recommendation_no_ai(d, company_id) ==
    LET p == calculate_price_score(fetch_company_prices(d, company_id))
        f == calculate_financial_score(fetch_statements(d, company_id))
    IN  IF ~IsNumber(p) THEN p
        ELSE IF ~IsNumber(f) THEN f
        ELSE company_recommendation_no_ai_of(p, f)

calculate_company_recommendation_with_ai(d, company_id) ==
    LET p == calculate_price_score(fetch_company_prices(d, company_id))
        f == calculate_financial_score(fetch_statements(d, company_id))
        s == calculate_sentiment_score(d.sentiment_rows, d.today, company_id, Null)
    IN  IF ~IsNumber(p) THEN p
        ELSE IF ~IsNumber(f) THEN f
        ELSE company_recommendation_with_ai_of(p, f, s[1], s[2])

calculate_asset_recommendation(d, asset_id) ==
    LET p == calculate_price_score(fetch_asset_prices(d, asset_id))
        s == calculate_sentiment_score(d.sentiment_rows, d.today, Null, asset_id)
    IN  IF ~IsNumber(p) THEN p
        ELSE asset_recommendation_of(p, s[1], s[2])

(***************************************************************************)
(* The database before the engine runs: company 1 and asset 1 with a       *)
(* price history of 0 or 60 days, company 1 with 0 or 2 statements, at     *)
(* most one stored sentiment row; company 2 has no prices or statements.   *)
(***************************************************************************)
StockRows(cid, s) ==
    [k \in 1 .. Len(s) |->
        [company_id |-> cid, date |-> s[k].date, close_price |-> s[k].close_price]]
AssetRows(aid, s) ==
    [k \in 1 .. Len(s) |->
        [asset_id |-> aid, date |-> s[k].date, price |-> s[k].close_price]]

\* price histories ending today, in insertion (ascending date) order: none,
\* one day short of 60 days, and 60 days with a prior average of 0 or 1
CompanyHistories ==
    {<<>>, Reverse(Series(59, MaxPrice, 1, 1))}
    \cup {Reverse(Series(60, a, b, b)) : a \in {0, MaxPrice}, b \in {0, 1}}
AssetHistories ==
    {<<>>} \cup {Reverse(Series(60, MaxPrice, b, b)) : b \in {0, 1}}

\* no statement, one statement, or two with a previous revenue from 0
StatementTables ==
    {<<>>, <<[company_id |-> 1, period_end_date |-> 1, revenue |-> MaxRevenue]>>}
    \cup
    {<<[company_id |-> 1, period_end_date |-> 1, revenue |-> rp],
       [company_id |-> 1, period_end_date |-> 2, revenue |-> rc]>> :
        rp \in 0 .. 2, rc \in 0 .. MaxRevenue}

SentimentTables(day) == {<<>>} \cup {<<r>> : r \in RowTypes(day)}

Companies == {1, 2}
Assets == {1}

InitClassify ==
    /\ today = 60
    /\ \E h \in CompanyHistories : stock_price = StockRows(1, h)
    /\ \E h \in AssetHistories : asset_price = AssetRows(1, h)
    /\ financial_statement \in StatementTables
    /\ sentiment_rows \in SentimentTables(60)
    /\ sent_arg = NoValue
    /\ sent_ret = NoValue
    /\ rec = NoValue
    /\ PriceIdle
    /\ FinIdle
    /\ BlendIdle
    /\ TaskIdle

ClassifyCompanyNoAi ==
    /\ \E c \in Companies :
          rec' = [fn |-> "company_no_ai", id |-> c,
                  result |-> calculate_company_recommendation_no_ai(db, c)]
    /\ UNCHANGED <<stock_price, asset_price, financial_statement,
                   priceVars, finVars, sentVars, blendVars, taskVars>>

ClassifyCompanyWithAi ==
    /\ \E c \in Companies :
          rec' = [fn |-> "company_with_ai", id |-> c,
                  result |-> calculate_company_recommendation_with_ai(db, c)]
    /\ UNCHANGED <<stock_price, asset_price, financial_statement,
                   priceVars, finVars, sentVars, blendVars, taskVars>>

ClassifyAsset ==
    /\ \E a \in Assets :
          rec' = [fn |-> "asset", id |-> a,
                  result |-> calculate_asset_recommendation(db, a)]
    /\ UNCHANGED <<stock_price, asset_price, financial_statement,
                   priceVars, finVars, sentVars, blendVars, taskVars>>

NextClassify ==
    \/ ClassifyCompanyNoAi
    \/ ClassifyCompanyWithAi
    \/ ClassifyAsset

SpecClassify == InitClassify /\ [][NextClassify]_vars

(***************************************************************************)
(* The part of each classifier after the calculators: the sub-scores and   *)
(* the confidence are given, the classifier blends and labels them.        *)
(***************************************************************************)
\* sub-scores on the 0-100 scale: the ends, the thresholds of the labels and
\* values that are not multiples of 0.01
ScoreVals ==
    {FromInt(k) : k \in {0, 20, 30, 40, 55, 60, 70, 80, 90, 100}}
    \cup {Rat(5999, 200), Rat(3999, 100), Rat(100, 3)}

\* average confidences on the 0-1 scale, around the 0.5 gate
ConfVals == {FromInt(0), Rat(3, 10), Rat(1, 3), Rat(1, 2), Rat(6, 10)}

InitBlend ==
    /\ scores \in [price_score : ScoreVals, financial_score : ScoreVals,
                    sentiment_score : ScoreVals, avg_confidence : ConfVals]
    /\ blended = NoValue
    /\ PriceIdle
    /\ FinIdle
    /\ SentIdle
    /\ RecIdle
    /\ TaskIdle

BlendCompanyNoAi ==
    /\ blended' = [fn |-> "company_no_ai",
                   result |-> company_recommendation_no_ai_of(
                                 scores.price_score, scores.financial_score)]
    /\ UNCHANGED <<scores, priceVars, finVars, sentVars, recVars, taskVars>>

BlendCompanyWithAi ==
    /\ blended' = [fn |-> "company_with_ai",
                   result |-> company_recommendation_with_ai_of(
                                 scores.price_score, scores.financial_score,
                                 scores.sentiment_score, scores.avg_confidence)]
    /\ UNCHANGED <<scores, priceVars, finVars, sentVars, recVars, taskVars>>

BlendAsset ==
    /\ blended' = [fn |-> "asset",
                   result |-> asset_recommendation_of(
                                 scores.price_score, scores.sentiment_score,
                                 scores.avg_confidence)]
    /\ UNCHANGED <<scores, priceVars, finVars, sentVars, recVars, taskVars>>

NextBlend ==
    \/ BlendCompanyNoAi
    \/ BlendCompanyWithAi
    \/ BlendAsset

SpecBlend == InitBlend /\ [][NextBlend]_vars

(***************************************************************************)
(* The classifiers as the days pass: the price tables keep their rows, the *)
(* 60-day window of the queries moves on, the price task stores today's    *)
(* price at most once.                                                     *)
(***************************************************************************)
MaxDays == 2

\* one point per day from first to last, ascending: the last 30 days close at
\* a, the days before at b
DailyHistory(first, last, a, b) ==
    [k \in 1 .. (last - first + 1) |->
        Point(first + k - 1, IF last - (first + k - 1) < 30 THEN a ELSE b)]

\* the same, priced on 5 days of each week only
WeekdayHistory(first, last, a, b) ==
    SelectSeq(DailyHistory(first, last, a, b), LAMBDA pt : pt.date % 7 < 5)

\* histories up to day 60: the 61 days of the window, 60 of them, the window
\* and 10 older days, and 5 days a week over 101 days
WindowHistories ==
    {DailyHistory(0, 60, MaxPrice, 1),
     DailyHistory(1, 60, MaxPrice, 1),
     DailyHistory(0 - 10, 60, MaxPrice, 1),
     WeekdayHistory(0 - 40, 60, MaxPrice, 1)}

InitWindow ==
    /\ today = 60
    /\ \E h \in WindowHistories : stock_price = StockRows(1, h)
    /\ \E h \in WindowHistories : asset_price = AssetRows(1, h)
    /\ financial_statement = <<>>
    /\ sentiment_rows = <<>>
    /\ sent_arg = NoValue
    /\ sent_ret = NoValue
    /\ rec = NoValue
    /\ PriceIdle
    /\ FinIdle
    /\ BlendIdle
    /\ TaskIdle

\* midnight: CURDATE() moves on
NextDay ==
    /\ today < 60 + MaxDays
    /\ today' = today + 1
    /\ UNCHANGED <<sentiment_rows, sent_arg, sent_ret, recVars,
                   priceVars, finVars, blendVars, taskVars>>

\* fetch_stock_prices, one date of its loop: today's close is stored unless
\* the company already has a row of that date
StoreStockPrice ==
    /\ \A k \in 1 .. Len(stock_price) :
          ~(stock_price[k].company_id = 1 /\ stock_price[k].date = today)
    /\ stock_price' = Append(stock_price,
          [company_id |-> 1, date |-> today, close_price |-> MaxPrice])
    /\ UNCHANGED <<asset_price, financial_statement, rec,
                   priceVars, finVars, sentVars, blendVars, taskVars>>

\* fetch_asset_prices, one date of its loop
StoreAssetPrice ==
    /\ \A k \in 1 .. Len(asset_price) :
          ~(asset_price[k].asset_id = 1 /\ asset_price[k].date = today)
    /\ asset_price' = Append(asset_price,
          [asset_id |-> 1, date |-> today, price |-> MaxPrice])
    /\ UNCHANGED <<stock_price, financial_statement, rec,
                   priceVars, finVars, sentVars, blendVars, taskVars>>

NextWindow ==
    \/ NextDay
    \/ StoreStockPrice
    \/ StoreAssetPrice
    \/ ClassifyCompanyNoAi
    \/ ClassifyCompanyWithAi
    \/ ClassifyAsset

SpecWindow == InitWindow /\ [][NextWindow]_vars

(***************************************************************************)
(* The recommendation tasks: the two batch runners, one loop iteration per *)
(* step, and the single-company run.  Each task has its own connection, so *)
(* an insert is visible once committed and leaves nothing when rolled back.*)
(* The database may raise in the listing, in a classifier's queries or in  *)
(* the insert; the rationale generator returns a rationale or an error.    *)
(***************************************************************************)
MaxRuns == 2

IsException(r) == "exc" \in DOMAIN r

\* where the database raises in one iteration
DbFaults == {"none", "classify", "insert"}

\* what generate_investment_rationale returns: a rationale with error None,
\* or its fallback with an error message
GeneratorOutcomes == {"rationale", "error"}

\* rationale_result['rationale']
Generated == [kind |-> "generated"]

\* f"Price Score: ..., Financial Score: ..., Sentiment Score: ..."
CompanySummary(r) ==
    [kind |-> "scores",
     price_score |-> r.price_score,
     financial_score |-> r.financial_score,
     sentiment_score |-> r.sentiment_score]

\* f"Price Score: ..., Sentiment Score: ..."
AssetSummary(r) ==
    [kind |-> "scores",
     price_score |-> r.price_score,
     sentiment_score |-> r.sentiment_score]

\* INSERT INTO investment_recommendation; run is the task run that committed
RecommendationRow(company_id, asset_id, r, rationale_summary, run) ==
    [company_id |-> company_id,
     asset_id |-> asset_id,
     recommendation_type |-> r.recommendation_type,
     investment_score |-> r.investment_score,
     risk_level |-> r.risk_level,
     rationale_summary |-> rationale_summary,
     run |-> run]

\* the line an iteration prints for its subject; e is the exception it names
Printed(id, line, e) == [id |-> id, line |-> line, e |-> e]

Finished(b) == b.pc \in {"idle", "returned", "raised"}

\* lines 25-37: the listing, the empty case, updated_count = 0
StartedBatch(run, listing, listed) ==
    IF ~listed
    THEN [IdleBatch EXCEPT !.pc = "raised", !.run = run]
    ELSE IF listing = <<>>
    THEN [IdleBatch EXCEPT !.pc = "returned", !.run = run,
                           !.ret = [updated_count |-> 0]]
    ELSE [IdleBatch EXCEPT !.pc = "loop", !.run = run, !.subjects = listing]

\* faulty variant: every company is stored with the classification of the
\* first listed one
update_company_iteration_stale(b, fault, gen) ==
    LET c == b.subjects[b.i]
        recommendation == calculate_company_recommendation_with_ai(db, b.subjects[1])
        classified == fault # "classify" /\ ~IsException(recommendation)
        rationale_result ==
            IF classified THEN [error |-> gen = "error"] ELSE b.rationale_result
        rationale_summary ==
            IF gen = "rationale" THEN Generated ELSE CompanySummary(recommendation)
        e == IF fault = "classify" THEN fault
             ELSE IF IsException(recommendation) THEN recommendation.exc
             ELSE fault
        failed == e # "none"
        line == Printed(c, IF failed THEN "Error updating recommendation"
                           ELSE "Updated recommendation", e)
    IN  [rows |-> IF failed THEN EmptyBag
                  ELSE SetToBag({RecommendationRow(c, Null, recommendation,
                                                   rationale_summary, b.run)}),
         b |-> [b EXCEPT !.i = @ + 1,
                         !.rationale_result = rationale_result,
                         !.updated_count = IF failed THEN @ ELSE @ + 1,
                         !.printed = Append(@, line)]]

\* faulty variant: no try/except in the loop, an exception ends the task
update_company_iteration_uncaught(b, fault, gen) ==
    LET c == b.subjects[b.i]
        recommendation == calculate_company_recommendation_with_ai(db, c)
        classified == fault # "classify" /\ ~IsException(recommendation)
        rationale_result ==
            IF classified THEN [error |-> gen = "error"] ELSE b.rationale_result
        rationale_summary ==
            IF gen = "rationale" THEN Generated ELSE CompanySummary(recommendation)
        e == IF fault = "classify" THEN fault
             ELSE IF IsException(recommendation) THEN recommendation.exc
             ELSE fault
        failed == e # "none"
        line == Printed(c, IF failed THEN "Error updating recommendation"
                           ELSE "Updated recommendation", e)
    IN  [rows |-> IF failed THEN EmptyBag
                  ELSE SetToBag({RecommendationRow(c, Null, recommendation,
                                                   rationale_summary, b.run)}),
         b |-> [b EXCEPT !.i = @ + 1,
                         !.pc = IF failed THEN "raised" ELSE @,
                         !.rationale_result = rationale_result,
                         !.updated_count = IF failed THEN @ ELSE @ + 1,
                         !.printed = Append(@, line)]]

\* faulty variant: a failed generator raises instead of returning its error
update_company_iteration_fatal_rationale(b, fault, gen) ==
    LET c == b.subjects[b.i]
        recommendation == calculate_company_recommendation_with_ai(db, c)
        classified == fault # "classify" /\ ~IsException(recommendation)
        rationale_result ==
            IF classified THEN [error |-> gen = "error"] ELSE b.rationale_result
        rationale_summary ==
            IF gen = "rationale" THEN Generated ELSE CompanySummary(recommendation)
        e == IF fault = "classify" THEN fault
             ELSE IF IsException(recommendation) THEN recommendation.exc
             ELSE IF gen = "error" THEN "rationale"
             ELSE fault
        failed == e # "none"
        line == Printed(c, IF failed THEN "Error updating recommendation"
                           ELSE "Updated recommendation", e)
    IN  [rows |-> IF failed THEN EmptyBag
                  ELSE SetToBag({RecommendationRow(c, Null, recommendation,
                                                   rationale_summary, b.run)}),
         b |-> [b EXCEPT !.i = @ + 1,
                         !.rationale_result = rationale_result,
                         !.updated_count = IF failed THEN @ ELSE @ + 1,
                         !.printed = Append(@, line)]]

\* lines 39-93: one iteration of the loop of update_company_recommendations
update_company_iteration(b, fault, gen) ==
    LET c == b.subjects[b.i]
        recommendation == calculate_company_recommendation_with_ai(db, c)
        classified == fault # "classify" /\ ~IsException(recommendation)
        rationale_result ==
            IF classified THEN [error |-> gen = "error"] ELSE b.rationale_result
        rationale_summary ==
            IF gen = "rationale" THEN Generated ELSE CompanySummary(recommendation)
        e == IF fault = "classify" THEN fault
             ELSE IF IsException(recommendation) THEN recommendation.exc
             ELSE fault
        failed == e # "none"
        line == Printed(c, IF failed THEN "Error updating recommendation"
                           ELSE "Updated recommendation", e)
    IN  [rows |-> IF failed THEN EmptyBag
                  ELSE SetToBag({RecommendationRow(c, Null, recommendation,
                                                   rationale_summary, b.run)}),
         b |-> [b EXCEPT !.i = @ + 1,
                         !.rationale_result = rationale_result,
                         !.updated_count = IF failed THEN @ ELSE @ + 1,
                         !.printed = Append(@, line)]]

\* faulty variant: updated_count is incremented before the insert is tried
update_asset_iteration_counting_attempts(b, fault) ==
    LET a == b.subjects[b.i]
        recommendation == calculate_asset_recommendation(db, a)
        e == IF fault = "classify" THEN fault
             ELSE IF IsException(recommendation) THEN recommendation.exc
             ELSE fault
        failed == e # "none"
        line == Printed(a, IF failed THEN "Error updating recommendation"
                           ELSE "Updated recommendation", e)
    IN  [rows |-> IF failed THEN EmptyBag
                  ELSE SetToBag({RecommendationRow(Null, a, recommendation,
                                                   AssetSummary(recommendation), b.run)}),
         b |-> [b EXCEPT !.i = @ + 1,
                         !.updated_count = IF e = "classify" THEN @ ELSE @ + 1,
                         !.printed = Append(@, line)]]

\* lines 125-154: one iteration of the loop of update_asset_recommendations
update_asset_iteration(b, fault) ==
    LET a == b.subjects[b.i]
        recommendation == calculate_asset_recommendation(db, a)
        e == IF fault = "classify" THEN fault
             ELSE IF IsException(recommendation) THEN recommendation.exc
             ELSE fault
        failed == e # "none"
        line == Printed(a, IF failed THEN "Error updating recommendation"
                           ELSE "Updated recommendation", e)
    IN  [rows |-> IF failed THEN EmptyBag
                  ELSE SetToBag({RecommendationRow(Null, a, recommendation,
                                                   AssetSummary(recommendation), b.run)}),
         b |-> [b EXCEPT !.i = @ + 1,
                         !.updated_count = IF failed THEN @ ELSE @ + 1,
                         !.printed = Append(@, line)]]

\* faulty variant: the on-demand entry point classifies without the sentiment
update_single_company_no_ai(company_id, run, fault) ==
    LET recommendation == calculate_company_recommendation_no_ai(db, company_id)
        failed == fault # "none" \/ IsException(recommendation)
    IN  [rows |-> IF failed THEN EmptyBag
                  ELSE SetToBag({RecommendationRow(company_id, Null, recommendation,
                                                   Generated, run)}),
         ret |-> IF failed THEN [success |-> FALSE, error |-> "str(e)"]
                 ELSE [success |-> TRUE, recommendation |-> recommendation]]

\* lines 161-198: update_single_company
update_single_company(company_id, run, fault) ==
    LET recommendation == calculate_company_recommendation_with_ai(db, company_id)
        failed == fault # "none" \/ IsException(recommendation)
    IN  [rows |-> IF failed THEN EmptyBag
                  ELSE SetToBag({RecommendationRow(company_id, Null, recommendation,
                                                   CompanySummary(recommendation), run)}),
         ret |-> IF failed THEN [success |-> FALSE, error |-> "str(e)"]
                 ELSE [success |-> TRUE, recommendation |-> recommendation]]

InitTasks ==
    /\ today = 60
    /\ stock_price = <<>>
    /\ asset_price = <<>>
    /\ financial_statement =
          <<[company_id |-> 1, period_end_date |-> 1, revenue |-> 2],
            [company_id |-> 1, period_end_date |-> 2, revenue |-> MaxRevenue]>>
    /\ sentiment_rows \in {<<>>, <<SentimentRow(1, 60, FromInt(1), FromInt(1))>>}
    /\ sent_arg = NoValue
    /\ sent_ret = NoValue
    /\ rec = NoValue
    /\ company \in {<<>>, <<1, 2>>, <<2, 1>>}
    /\ asset \in {<<>>, <<1>>}
    /\ investment_recommendation = EmptyBag
    /\ cb = IdleBatch
    /\ ab = IdleBatch
    /\ single = NoValue
    /\ runs = 0
    /\ PriceIdle
    /\ FinIdle
    /\ BlendIdle

inputVars == <<priceVars, finVars, sentVars, recVars, blendVars, company, asset>>

StartCompanyBatch ==
    /\ runs < MaxRuns
    /\ Finished(cb)
    /\ runs' = runs + 1
    /\ \E listed \in BOOLEAN : cb' = StartedBatch(runs + 1, company, listed)
    /\ UNCHANGED <<inputVars, investment_recommendation, ab, single>>

CompanyBatchStep ==
    /\ ~Finished(cb)
    /\ cb.i <= Len(cb.subjects)
    /\ \E fault \in DbFaults, gen \in GeneratorOutcomes :
          LET step == update_company_iteration(cb, fault, gen)
          IN  /\ investment_recommendation' = investment_recommendation (+) step.rows
              /\ cb' = step.b
    /\ UNCHANGED <<inputVars, ab, single, runs>>

\* lines 95-96
CompanyBatchReturn ==
    /\ ~Finished(cb)
    /\ cb.i > Len(cb.subjects)
    /\ cb' = [cb EXCEPT !.pc = "returned",
                        !.ret = [updated_count |-> cb.updated_count]]
    /\ UNCHANGED <<inputVars, investment_recommendation, ab, single, runs>>

StartAssetBatch ==
    /\ runs < MaxRuns
    /\ Finished(ab)
    /\ runs' = runs + 1
    /\ \E listed \in BOOLEAN : ab' = StartedBatch(runs + 1, asset, listed)
    /\ UNCHANGED <<inputVars, investment_recommendation, cb, single>>

AssetBatchStep ==
    /\ ~Finished(ab)
    /\ ab.i <= Len(ab.subjects)
    /\ \E fault \in DbFaults :
          LET step == update_asset_iteration(ab, fault)
          IN  /\ investment_recommendation' = investment_recommendation (+) step.rows
              /\ ab' = step.b
    /\ UNCHANGED <<inputVars, cb, single, runs>>

\* lines 156-157
AssetBatchReturn ==
    /\ ~Finished(ab)
    /\ ab.i > Len(ab.subjects)
    /\ ab' = [ab EXCEPT !.pc = "returned",
                        !.ret = [updated_count |-> ab.updated_count]]
    /\ UNCHANGED <<inputVars, investment_recommendation, cb, single, runs>>

\* faulty variant: the insert replaces the rows already stored for the company
UpdateSingleCompany_replacing ==
    /\ runs < MaxRuns
    /\ runs' = runs + 1
    /\ \E c \in Companies, fault \in DbFaults :
          LET call == update_single_company(c, runs + 1, fault)
              kept == {row \in BagToSet(investment_recommendation) :
                          call.rows = EmptyBag \/ row.company_id # c}
          IN  /\ investment_recommendation' =
                    [row \in kept |-> investment_recommendation[row]] (+) call.rows
              /\ single' = [run |-> runs + 1, company_id |-> c, ret |-> call.ret]
    /\ UNCHANGED <<inputVars, cb, ab>>

UpdateSingleCompany ==
    /\ runs < MaxRuns
    /\ runs' = runs + 1
    /\ \E c \in Companies, fault \in DbFaults :
          LET call == update_single_company(c, runs + 1, fault)
          IN  /\ investment_recommendation' = investment_recommendation (+) call.rows
              /\ single' = [run |-> runs + 1, company_id |-> c, ret |-> call.ret]
    /\ UNCHANGED <<inputVars, cb, ab>>

NextTasks ==
    \/ StartCompanyBatch
    \/ CompanyBatchStep
    \/ CompanyBatchReturn
    \/ StartAssetBatch
    \/ AssetBatchStep
    \/ AssetBatchReturn
    \/ UpdateSingleCompany

SpecTasks == InitTasks /\ [][NextTasks]_vars

\* what an iteration does to the position of its batch, whatever it stores:
\* the loop moves to the next subject, with one more line printed
LoopAdvance(b) ==
    {[b EXCEPT !.i = @ + 1,
               !.updated_count = count,
               !.rationale_result = rationale_result,
               !.printed = Append(@, [line EXCEPT !.id = b.subjects[b.i]])] :
        count \in {b.updated_count, b.updated_count + 1},
        rationale_result \in {b.rationale_result, [error |-> FALSE], [error |-> TRUE]},
        line \in {Printed(Null, "Updated recommendation", "none")}
                 \cup {Printed(Null, "Error updating recommendation", e) :
                          e \in DbFaults \ {"none"}}}

CompanyBatchAdvance ==
    /\ ~Finished(cb)
    /\ cb.i <= Len(cb.subjects)
    /\ \E b \in LoopAdvance(cb) : cb' = b

AssetBatchAdvance ==
    /\ ~Finished(ab)
    /\ ab.i <= Len(ab.subjects)
    /\ \E b \in LoopAdvance(ab) : ab' = b

\* a started loop is not abandoned: the worker runs the task to its end
FairTasks ==
    /\ WF_cb(CompanyBatchAdvance)
    /\ WF_vars(CompanyBatchReturn)
    /\ WF_ab(AssetBatchAdvance)
    /\ WF_vars(AssetBatchReturn)

SpecTasksFair == SpecTasks /\ FairTasks

(***************************************************************************)
(* Properties of calculate_price_score, stated over the last call          *)
(* (scored, ps).  The reference values are computed from the set of        *)
(* points by date rank, independently of the order of the list.            *)
(***************************************************************************)
Called == ps # NoValue

DistinctDates(s) == Cardinality(Dates(s)) = Len(s)

\* the number of points of s dated after point i
NewerCount(s, i) == Cardinality({j \in 1 .. Len(s) : s[j].date > s[i].date})
\* the date rank of every point of s: 0 for the latest
Rank(s) == [i \in 1 .. Len(s) |-> NewerCount(s, i)]
\* the indices of the 30 latest-dated points, and of the next 30
RecentIdx(s) == LET rk == Rank(s) IN {i \in 1 .. Len(s) : rk[i] < 30}
PriorIdx(s) == LET rk == Rank(s) IN {i \in 1 .. Len(s) : rk[i] >= 30 /\ rk[i] < 60}

RECURSIVE SumInts(_, _)
\* the sum over v in V of v * w[v]
SumInts(V, w) ==
    IF V = {} THEN 0
    ELSE LET v == CHOOSE x \in V : TRUE IN v * w[v] + SumInts(V \ {v}, w)

\* the sum of the close prices of the points of s with index in I
SumClose(s, I) ==
    LET V == {s[i].close_price : i \in I}
    IN  SumInts(V, [v \in V |-> Cardinality({i \in I : s[i].close_price = v})])

\* the mean close price of the two windows of s
WindowMeans(s) ==
    LET rk == Rank(s)
    IN  [recent |-> Rat(SumClose(s, {i \in 1 .. Len(s) : rk[i] < 30}), 30),
         prior |-> Rat(SumClose(s, {i \in 1 .. Len(s) : rk[i] >= 30 /\ rk[i] < 60}), 30)]
MeanRecent(s) == WindowMeans(s).recent
MeanPrior(s) == WindowMeans(s).prior

Clamp(x) ==
    IF RLt(x, FromInt(0)) THEN FromInt(0)
    ELSE IF RLt(FromInt(100), x) THEN FromInt(100) ELSE x

\* 50 + 50 * (avg_recent - avg_prior) / avg_prior, for avg_prior # 0
RawOf(m) ==
    RAdd(FromInt(50), RMul(FromInt(50), RDiv(RSub(m.recent, m.prior), m.prior)))
RawScore(s) == RawOf(WindowMeans(s))

\* the 60 most recent points of s, as a set
RecentSixty(s) == LET rk == Rank(s) IN {s[i] : i \in {j \in 1 .. Len(s) : rk[j] < 60}}

\* a step that calls calculate_price_score on the current list
IsPriceCall == scored' = prices /\ prices' = prices /\ ps' # NoValue

\* C1: every call on fewer than 60 points (0, 1 or 59 points, in any order,
\* whatever the dates and close prices) returns exactly 50.
C1_ShortSeriesIsNeutral ==
    (Called /\ Len(scored) < 60) => ps = FromInt(50)

C1_Witness ==
    /\ Called
    /\ Len(scored) = 59
    /\ ~IsQueryOrder(scored)
    /\ \E k \in 1 .. 59 : scored[k].close_price # scored[1].close_price
    /\ ps = FromInt(50)

\* C2 (value): a call on 60 or more points with distinct dates and a non-zero
\* prior mean returns clamp(50 + 50*(avg_recent - avg_prior)/avg_prior),
\* the means taken over the 30 latest-dated and the next 30 latest-dated
\* points, whatever the order of the list.
C2_Value ==
    (Called /\ Len(scored) >= 60 /\ DistinctDates(scored)) =>
        LET m == WindowMeans(scored)
        IN  m.prior # FromInt(0) => ps = Clamp(RawOf(m))

\* C2 (relation): a call on a list holding the same 60 most recent points
\* as the list of the previous call, in any order and with any older
\* points added or removed, returns what the previous call returned.
C2_SameSixtySameScore ==
    (/\ IsPriceCall
     /\ Called
     /\ Len(scored) >= 60 /\ Len(prices) >= 60
     /\ DistinctDates(scored) /\ DistinctDates(prices)
     /\ RecentSixty(prices) = RecentSixty(scored))
    => ps' = ps

\* C2: for every list of 60 or more points with distinct dates, in any
\* order, the score is the clamped formula over the two 30-point windows by
\* date, is the same for every permutation, and ignores points older than
\* the 60 most recent.
C2_PriceScoreFormula == [](C2_Value) /\ [][C2_SameSixtySameScore]_vars

\* the last call scored the 60 fetched points and returned an unclamped,
\* non-neutral score; the list now holds the same 60 points plus an older
\* one, in another order
C2_Witness ==
    /\ Called
    /\ Len(scored) = 60
    /\ IsQueryOrder(scored)
    /\ MeanPrior(scored) # FromInt(0)
    /\ ps = RawScore(scored)
    /\ ps # FromInt(50)
    /\ Len(prices) > 60
    /\ ~IsQueryOrder(prices)
    /\ RecentSixty(prices) = RecentSixty(scored)

\* C3: whatever the list, the returned score is a number in [0, 100].
C3_PriceScoreInRange ==
    Called => (IsNumber(ps) /\ RLe(FromInt(0), ps) /\ RLe(ps, FromInt(100)))

\* a call whose unclamped score lies below 0 and returned 0
C3_Witness ==
    /\ Called
    /\ Len(scored) >= 60
    /\ MeanPrior(scored) # FromInt(0)
    /\ RLt(RawScore(scored), FromInt(0))
    /\ ps = FromInt(0)

\* C4: a call on 60 or more points whose prior mean (points 30..59 by date
\* descending) is 0 returns exactly 50 whatever the recent prices are, and
\* no division by zero is raised.
C4_ZeroPriorIsNeutral ==
    (/\ Called
     /\ Len(scored) >= 60
     /\ DistinctDates(scored)
     /\ MeanPrior(scored) = FromInt(0))
    => ps = FromInt(50)

\* the prior window sums to 0 without being all zero, the recent mean is not 0
C4_Witness ==
    /\ Called
    /\ Len(scored) >= 60
    /\ MeanPrior(scored) = FromInt(0)
    /\ \E i \in PriorIdx(scored) : scored[i].close_price # 0
    /\ MeanRecent(scored) # FromInt(0)
    /\ ps = FromInt(50)

NonNegative(s) == \A k \in 1 .. Len(s) : s[k].close_price >= 0

\* t has the prior-30 points of s
SamePrior(s, t) ==
    {s[i] : i \in PriorIdx(s)} = {t[j] : j \in PriorIdx(t)}

\* each of the 30 most recent points of t closes at or above the point of
\* the same date rank of s
RecentAtLeast(s, t) ==
    LET rs == RecentIdx(s)
        rt == RecentIdx(t)
        ns == [i \in rs |-> NewerCount(s, i)]
        nt == [j \in rt |-> NewerCount(t, j)]
    IN  \A i \in rs : \A j \in rt :
            ns[i] = nt[j] => t[j].close_price >= s[i].close_price

\* C5: when a call on a 60-point series with non-negative prices follows a
\* call on a 60-point series with the same prior-30 points whose 30 most
\* recent prices are each lower or equal, its score is greater or equal.
C5_Monotone ==
    [][(/\ IsPriceCall
        /\ Called
        /\ Len(scored) = 60 /\ Len(prices) = 60
        /\ DistinctDates(scored) /\ DistinctDates(prices)
        /\ NonNegative(scored) /\ NonNegative(prices)
        /\ SamePrior(scored, prices)
        /\ RecentAtLeast(scored, prices))
       => (IsNumber(ps') /\ RLe(ps, ps'))]_vars

\* the last call scored strictly inside (0, 100); the list now holds the
\* same prior window and a higher recent window, in another order
C5_Witness ==
    /\ Called
    /\ Len(scored) = 60 /\ Len(prices) = 60
    /\ NonNegative(scored) /\ NonNegative(prices)
    /\ RLt(FromInt(0), ps) /\ RLt(ps, FromInt(100))
    /\ SamePrior(scored, prices)
    /\ RecentAtLeast(scored, prices)
    /\ \E k \in 1 .. 60 : prices[k] \notin {scored[i] : i \in 1 .. 60}
    /\ ~IsQueryOrder(prices)

(***************************************************************************)
(* Properties of calculate_financial_score.                                *)
(***************************************************************************)
FinCalled == fs # NoValue

\* the number of statements of st with a later period end
LaterCount(st, i) ==
    Cardinality({j \in 1 .. Len(st) : st[j].period_end_date > st[i].period_end_date})
\* the statement with the latest period end, and the one before it
Current(st) == st[CHOOSE i \in 1 .. Len(st) : LaterCount(st, i) = 0]
Previous(st) == st[CHOOSE i \in 1 .. Len(st) : LaterCount(st, i) = 1]

\* C6: with fewer than 2 statements, or with revenue 0 in the second most
\* recent statement, the financial score is exactly 50 whatever the current
\* revenue is, and no division by zero is raised.
C6_FinancialFallback ==
    /\ (FinCalled /\ Len(statements) < 2) => fs = FromInt(50)
    /\ (FinCalled /\ Len(statements) >= 2 /\ Previous(statements).revenue = 0)
          => fs = FromInt(50)

\* three statements out of date order, previous revenue 0, current revenue not
C6_Witness ==
    /\ FinCalled
    /\ Len(statements) >= 3
    /\ Previous(statements).revenue = 0
    /\ Current(statements).revenue # 0
    /\ statements[2] # Previous(statements)
    /\ fs = FromInt(50)

\* 50 + 50 * (current - previous) / previous, for previous # 0
RawFinancial(st) ==
    RAdd(FromInt(50),
         RDiv(RMul(FromInt(50),
                   FromInt(Current(st).revenue - Previous(st).revenue)),
              FromInt(Previous(st).revenue)))

SentCalled == sent_ret # NoValue

\* the id the last call asked for
CallId == IF sent_arg.company_id # Null THEN sent_arg.company_id ELSE sent_arg.asset_id

\* the record set of the call: the stored rows of content with the id asked
\* for, published in the trailing 30 days (as indices of the table)
RecordSet ==
    {i \in 1 .. Len(sentiment_rows) :
        /\ sentiment_rows[i].company_id # Null
        /\ sentiment_rows[i].company_id = CallId
        /\ today - sentiment_rows[i].publish_date <= 30}

RECURSIVE SumOver(_, _)
\* the sum of column f over the rows with index in I
SumOver(I, f) ==
    IF I = {} THEN FromInt(0)
    ELSE LET i == CHOOSE x \in I : TRUE
         IN  RAdd(sentiment_rows[i][f], SumOver(I \ {i}, f))

MeanOver(I, f) == RDiv(SumOver(I, f), FromInt(Cardinality(I)))

InUnit(x) == RLe(FromInt(0), x) /\ RLe(x, FromInt(1))
InSigned(x) == RLe(FromInt(0 - 1), x) /\ RLe(x, FromInt(1))

\* C8: when the record set is empty the call returns exactly (0, 0): the
\* raw score 0, not the scaled neutral 50, and confidence 0.
C8_EmptySentimentIsRawZero ==
    (SentCalled /\ RecordSet = {}) => sent_ret = <<FromInt(0), FromInt(0)>>

\* rows are stored, none of them in the record set of the call
C8_Witness ==
    /\ SentCalled
    /\ Len(sentiment_rows) >= 2
    /\ RecordSet = {}
    /\ \E i \in 1 .. Len(sentiment_rows) :
          sentiment_rows[i].company_id = CallId /\ today - sentiment_rows[i].publish_date > 30
    /\ \E i \in 1 .. Len(sentiment_rows) : sentiment_rows[i].company_id # CallId
    /\ sent_ret = <<FromInt(0), FromInt(0)>>

\* C9: for a non-empty record set the call returns
\* (50 + 50*mean(sentiment_score), mean(confidence_level)), unclamped; with
\* every score in [-1, 1] and every confidence in [0, 1] the score lies in
\* [0, 100] and the confidence in [0, 1]; with every score +1 the score is
\* exactly 100.
C9_SentimentFormula ==
    (SentCalled /\ RecordSet # {}) =>
        /\ sent_ret[1] = RAdd(FromInt(50),
                               RMul(FromInt(50), MeanOver(RecordSet, "sentiment_score")))
        /\ sent_ret[2] = MeanOver(RecordSet, "confidence_level")
        /\ (\A i \in RecordSet :
                /\ InSigned(sentiment_rows[i].sentiment_score)
                /\ InUnit(sentiment_rows[i].confidence_level))
            => /\ RLe(FromInt(0), sent_ret[1]) /\ RLe(sent_ret[1], FromInt(100))
               /\ InUnit(sent_ret[2])
        /\ (\A i \in RecordSet : sentiment_rows[i].sentiment_score = FromInt(1))
            => sent_ret[1] = FromInt(100)

\* three records in the set, one of them out of range: the score returned
\* is above 100
C9_Witness ==
    /\ SentCalled
    /\ Cardinality(RecordSet) = 3
    /\ RLt(FromInt(100), sent_ret[1])
    /\ sent_ret[1].d = 3

\* the same call with every score +1
C9_WitnessAllPositive ==
    /\ SentCalled
    /\ Cardinality(RecordSet) >= 2
    /\ \A i \in RecordSet : sentiment_rows[i].sentiment_score = FromInt(1)
    /\ sent_ret[1] = FromInt(100)

(***************************************************************************)
(* Properties of the classifiers, stated over the last classification.     *)
(***************************************************************************)
Classified == rec # NoValue
UsesSentiment == rec.fn \in {"company_with_ai", "asset"}

\* the stored sentiment rows of content with the id of the classified
\* subject, published in the trailing 30 days
SubjectRecords ==
    {i \in 1 .. Len(sentiment_rows) :
        /\ sentiment_rows[i].company_id # Null
        /\ sentiment_rows[i].company_id = rec.id
        /\ today - sentiment_rows[i].publish_date <= 30}

\* C10: when no sentiment record of the subject lies in the window, the
\* sentiment that enters the blend and the risk rule is the neutral 50, with
\* confidence 0: the result reports sentiment 50 and confidence 0, and the
\* missing sentiment alone does not make the risk high.
C10_NoSentimentEntersAsNeutral ==
    (Classified /\ UsesSentiment /\ SubjectRecords = {}) =>
        /\ rec.result.sentiment_score = FromInt(50)
        /\ rec.result.confidence_level = FromInt(0)
        /\ rec.fn = "asset" => rec.result.risk_level = "medium"
        /\ (rec.fn = "company_with_ai" /\ rec.result.risk_level = "high")
              => RLt(rec.result.financial_score, FromInt(30))

(***************************************************************************)
(* Properties of the blending and labelling, stated over the sub-scores    *)
(* a classifier was given and the result it built.                         *)
(***************************************************************************)
BlendedBy(fn) == blended # NoValue /\ blended.fn = fn

RAbs(x) == IF x.n < 0 THEN Rat(0 - x.n, x.d) ELSE x
IsHundredth(x) == (100 * x.n) % x.d = 0
\* x is a multiple of 0.01 within 0.005 of y
RoundedTo2(x, y) ==
    /\ IsHundredth(x)
    /\ RLe(RAbs(RSub(x, y)), Rat(1, 200))

\* w1*a + w2*b + w3*c with the weights given in tenths
Weighted(w1, a, w2, b, w3, c) ==
    RAdd(RMul(Rat(w1, 10), a), RAdd(RMul(Rat(w2, 10), b), RMul(Rat(w3, 10), c)))

AtLeast(x, k) == x.n >= k * x.d
Below(x, k) == x.n < k * x.d
Above(x, k) == x.n > k * x.d

Mean2 == Weighted(5, scores.price_score, 5, scores.financial_score, 0, FromInt(0))

\* C11: the classifier without sentiment blends price and financial score
\* half and half; the type is invest from 60, hold from 40 to below 60,
\* dont_invest below 40; the risk is high for a financial score below 30, low
\* above 60, medium otherwise (so at exactly 30 and 60); (80, 80) gives
\* 80 / invest / low and (30, 20) gives 25 / dont_invest / high.
C11_NoAiClassification ==
    BlendedBy("company_no_ai") =>
        LET r == blended.result
            f == scores.financial_score
        IN  /\ RoundedTo2(r.investment_score, Mean2)
            /\ r.recommendation_type = "invest" <=> AtLeast(Mean2, 60)
            /\ r.recommendation_type = "hold" <=> (AtLeast(Mean2, 40) /\ Below(Mean2, 60))
            /\ r.recommendation_type = "dont_invest" <=> Below(Mean2, 40)
            /\ r.risk_level = "high" <=> Below(f, 30)
            /\ r.risk_level = "low" <=> Above(f, 60)
            /\ r.risk_level = "medium" <=> (AtLeast(f, 30) /\ ~Above(f, 60))
            /\ (scores.price_score = FromInt(80) /\ f = FromInt(80)) =>
                  /\ r.investment_score = FromInt(80)
                  /\ r.recommendation_type = "invest"
                  /\ r.risk_level = "low"
            /\ (scores.price_score = FromInt(30) /\ f = FromInt(20)) =>
                  /\ r.investment_score = FromInt(25)
                  /\ r.recommendation_type = "dont_invest"
                  /\ r.risk_level = "high"

\* a financial score of exactly 60 with a blend of exactly 60
C11_Witness ==
    /\ BlendedBy("company_no_ai")
    /\ scores.price_score = FromInt(60)
    /\ scores.financial_score = FromInt(60)
    /\ blended.result.recommendation_type = "invest"
    /\ blended.result.risk_level = "medium"

ConfidentGate == scores.avg_confidence.n * 2 > scores.avg_confidence.d

Blend334 ==
    Weighted(3, scores.price_score, 3, scores.financial_score, 4, scores.sentiment_score)
Blend442 ==
    Weighted(4, scores.price_score, 4, scores.financial_score, 2, scores.sentiment_score)
CompanyBlend == IF ConfidentGate THEN Blend334 ELSE Blend442

\* C12: the classifier with sentiment blends 0.3 price + 0.3 financial +
\* 0.4 sentiment when the average confidence is strictly above 0.5 and
\* 0.4 price + 0.4 financial + 0.2 sentiment otherwise, also at exactly 0.5.
C12_CompanyBlendWeights ==
    BlendedBy("company_with_ai") =>
        /\ ConfidentGate => RoundedTo2(blended.result.investment_score, Blend334)
        /\ ~ConfidentGate => RoundedTo2(blended.result.investment_score, Blend442)

\* a confidence of exactly 0.5 where the two blends differ
C12_Witness ==
    /\ BlendedBy("company_with_ai")
    /\ scores.avg_confidence = Rat(1, 2)
    /\ ~RoundedTo2(blended.result.investment_score, Blend334)
    /\ blended.result.investment_score = Blend442

Blend55 == Weighted(5, scores.price_score, 5, scores.sentiment_score, 0, FromInt(0))
Blend73 == Weighted(7, scores.price_score, 3, scores.sentiment_score, 0, FromInt(0))
AssetBlend == IF ConfidentGate THEN Blend55 ELSE Blend73

\* the unrounded investment score of the last blend
Unrounded ==
    IF blended.fn = "company_no_ai" THEN Mean2
    ELSE IF blended.fn = "company_with_ai" THEN CompanyBlend
    ELSE AssetBlend

\* C13: in the company-with-sentiment and the asset classifier the type is
\* invest from an unrounded investment score of 55 (the band from 70 gives
\* the same label), hold from 40 to below 55 and dont_invest below 40;
\* company scores 60, 60, 60 with confidence 0.6 give 60 and invest.
C13_TypeThresholds ==
    (BlendedBy("company_with_ai") \/ BlendedBy("asset")) =>
        LET r == blended.result
        IN  /\ r.recommendation_type = "invest" <=> AtLeast(Unrounded, 55)
            /\ r.recommendation_type = "hold" <=>
                  (AtLeast(Unrounded, 40) /\ Below(Unrounded, 55))
            /\ r.recommendation_type = "dont_invest" <=> Below(Unrounded, 40)
            /\ (/\ blended.fn = "company_with_ai"
                /\ scores.price_score = FromInt(60)
                /\ scores.financial_score = FromInt(60)
                /\ scores.sentiment_score = FromInt(60)
                /\ scores.avg_confidence = Rat(6, 10)) =>
                  /\ r.investment_score = FromInt(60)
                  /\ r.recommendation_type = "invest"

\* an asset whose blend is exactly 55
C13_Witness ==
    /\ BlendedBy("asset")
    /\ AssetBlend = FromInt(55)
    /\ blended.result.recommendation_type = "invest"

\* C14: in the classifier with sentiment the risk is high when the sentiment
\* score is below 40 or the financial score below 30, otherwise low when the
\* sentiment score is above 70 and the financial score above 60, otherwise
\* medium; it is a function of these two scores alone.
C14_CompanyRiskTier ==
    BlendedBy("company_with_ai") =>
        LET sc == scores.sentiment_score
            f == scores.financial_score
            high == Below(sc, 40) \/ Below(f, 30)
            low == ~high /\ Above(sc, 70) /\ Above(f, 60)
        IN  /\ blended.result.risk_level = "high" <=> high
            /\ blended.result.risk_level = "low" <=> low
            /\ blended.result.risk_level = "medium" <=> (~high /\ ~low)

\* a good sentiment with a poor financial score is high risk
C14_Witness ==
    /\ BlendedBy("company_with_ai")
    /\ scores.sentiment_score = FromInt(80)
    /\ scores.financial_score = FromInt(20)
    /\ blended.result.risk_level = "high"

\* both scores on their boundary are medium risk
C14_WitnessBoundary ==
    /\ BlendedBy("company_with_ai")
    /\ scores.sentiment_score = FromInt(40)
    /\ scores.financial_score = FromInt(30)
    /\ blended.result.risk_level = "medium"

\* C15: the asset classifier blends 0.5 price + 0.5 sentiment when the
\* average confidence is strictly above 0.5 and 0.7 price + 0.3 sentiment
\* otherwise, also at exactly 0.5; the risk is high for a sentiment score
\* below 40, low above 70, medium otherwise; the result has no financial score.
C15_AssetClassification ==
    BlendedBy("asset") =>
        LET r == blended.result
            sc == scores.sentiment_score
        IN  /\ ConfidentGate => RoundedTo2(r.investment_score, Blend55)
            /\ ~ConfidentGate => RoundedTo2(r.investment_score, Blend73)
            /\ r.risk_level = "high" <=> Below(sc, 40)
            /\ r.risk_level = "low" <=> Above(sc, 70)
            /\ r.risk_level = "medium" <=> (AtLeast(sc, 40) /\ ~Above(sc, 70))
            /\ "financial_score" \notin DOMAIN r

\* a confidence of exactly 0.5 where the two blends differ
C15_Witness ==
    /\ BlendedBy("asset")
    /\ scores.avg_confidence = Rat(1, 2)
    /\ ~RoundedTo2(blended.result.investment_score, Blend55)
    /\ blended.result.investment_score = Blend73
    /\ scores.sentiment_score = FromInt(70)
    /\ blended.result.risk_level = "medium"

ScenarioD ==
    /\ BlendedBy("asset")
    /\ scores.avg_confidence = Rat(3, 10)
    /\ scores.price_score = FromInt(90)
    /\ scores.sentiment_score = FromInt(20)

\* C16 as stated: an asset with confidence 0.3, price score 90 and sentiment
\* score 20 gets investment score 69, type hold and risk high.
C16_ScenarioD_Hold ==
    ScenarioD =>
        /\ blended.result.investment_score = FromInt(69)
        /\ blended.result.recommendation_type = "hold"
        /\ blended.result.risk_level = "high"

\* C16 amended: an asset with confidence 0.3, price score 90 and sentiment
\* score 20 gets investment score 69, type invest (69 is not below 55) and
\* risk high.
C16_ScenarioD_Invest ==
    ScenarioD =>
        /\ blended.result.investment_score = FromInt(69)
        /\ blended.result.recommendation_type = "invest"
        /\ blended.result.risk_level = "high"

C16_Witness ==
    /\ ScenarioD
    /\ blended.result.price_score = FromInt(90)
    /\ blended.result.sentiment_score = FromInt(20)
    /\ blended.result.confidence_level = Rat(3, 10)

Blended == blended # NoValue

\* the sub-scores the last blend used
UsedScores ==
    IF blended.fn = "company_no_ai"
    THEN {scores.price_score, scores.financial_score}
    ELSE IF blended.fn = "company_with_ai"
    THEN {scores.price_score, scores.financial_score, scores.sentiment_score}
    ELSE {scores.price_score, scores.sentiment_score}

\* C17: in every branch of the three classifiers the weights are
\* non-negative and sum to 1: sub-scores that are all equal to x blend to x,
\* and for sub-scores in [0, 100] the investment score lies in [0, 100].
C17_WeightsSumToOne ==
    Blended =>
        /\ RLe(FromInt(0), blended.result.investment_score)
        /\ RLe(blended.result.investment_score, FromInt(100))
        /\ \A x \in ScoreVals :
              UsedScores = {x} => RoundedTo2(blended.result.investment_score, x)

\* the confident branch of the company classifier on the top corner
C17_Witness ==
    /\ BlendedBy("company_with_ai")
    /\ ConfidentGate
    /\ UsedScores = {FromInt(100)}
    /\ blended.result.investment_score = FromInt(100)

\* C18: every numeric field of a classifier's result is the computed value
\* rounded to 2 decimal places: a multiple of 0.01 within 0.005 of it.
C18_FieldsRoundedTo2 ==
    Blended =>
        LET r == blended.result
        IN  /\ RoundedTo2(r.investment_score, Unrounded)
            /\ RoundedTo2(r.price_score, scores.price_score)
            /\ "financial_score" \in DOMAIN r =>
                  RoundedTo2(r.financial_score, scores.financial_score)
            /\ "sentiment_score" \in DOMAIN r =>
                  RoundedTo2(r.sentiment_score, scores.sentiment_score)
            /\ "confidence_level" \in DOMAIN r =>
                  RoundedTo2(r.confidence_level, scores.avg_confidence)

\* computed values that are not multiples of 0.01, one of them a tie
C18_Witness ==
    /\ BlendedBy("company_with_ai")
    /\ scores.price_score = Rat(5999, 200)
    /\ scores.financial_score = Rat(100, 3)
    /\ scores.avg_confidence = Rat(1, 3)
    /\ ~IsHundredth(Unrounded)
    /\ blended.result.price_score = FromInt(30)
    /\ blended.result.financial_score = Rat(3333, 100)
    /\ blended.result.confidence_level = Rat(33, 100)

(***************************************************************************)
(* Properties of the whole classifiers, from the tables to the result.     *)
(***************************************************************************)
IsRecommendation(r) ==
    /\ {"recommendation_type", "risk_level", "investment_score"} \subseteq DOMAIN r
    /\ r.recommendation_type \in {"invest", "hold", "dont_invest"}
    /\ r.risk_level \in {"low", "medium", "high"}
    /\ IsNumber(r.investment_score)

\* C20: whatever the length of the price history, the number of statements,
\* a prior average price of 0, a previous revenue of 0 or an empty sentiment
\* set, each classifier returns a result with a type among invest, hold,
\* dont_invest and a risk among low, medium, high: no division by zero
\* escapes.
C20_NoNumericEdgeFailure ==
    Classified => IsRecommendation(rec.result)

\* 60 prices with a prior average of 0, a previous revenue of 0 and no
\* sentiment row at once
C20_Witness ==
    /\ Classified
    /\ rec.fn = "company_with_ai"
    /\ rec.id = 1
    /\ Len(stock_price) = 60
    /\ \A k \in 1 .. 30 : stock_price[k].close_price = 0
    /\ Len(financial_statement) = 2
    /\ financial_statement[1].revenue = 0
    /\ financial_statement[2].revenue > 0
    /\ sentiment_rows = <<>>
    /\ IsRecommendation(rec.result)
    /\ rec.result.price_score = FromInt(50)
    /\ rec.result.financial_score = FromInt(50)

\* the other lengths: no price at all, 59 prices, one statement
C20_WitnessShort ==
    /\ Classified
    /\ rec.fn = "company_no_ai"
    /\ rec.id = 1
    /\ Len(stock_price) = 59
    /\ Len(financial_statement) = 1
    /\ IsRecommendation(rec.result)

\* the classified subject has fewer than 60 prices and fewer than 2
\* statements in reach of the queries and no sentiment record in the window
NoHistory ==
    /\ Classified
    /\ UsesSentiment
    /\ SubjectRecords = {}
    /\ rec.fn = "company_with_ai" =>
          /\ Len(fetch_company_prices(db, rec.id)) < 60
          /\ Len(fetch_statements(db, rec.id)) < 2
    /\ rec.fn = "asset" => Len(fetch_asset_prices(db, rec.id)) < 60

\* C23: a subject with no history (fewer than 60 prices, fewer than 2
\* statements, no sentiment record in the window) is classified without an
\* error, as a company and as an asset, and its type is the neutral hold.
C23_NoHistoryIsHold ==
    NoHistory =>
        /\ IsRecommendation(rec.result)
        /\ rec.result.recommendation_type = "hold"

\* the database without the sentiment rows of content attached to a company
WithoutCompanyRecords ==
    [db EXCEPT !.sentiment_rows =
        SelectSeq(sentiment_rows, LAMBDA r : r.company_id = Null)]

\* C26: sentiment records attached to a company, also to one whose id
\* equals the asset's id, never influence an asset's recommendation: the
\* result is the one the asset gets when those records are absent.
C26_CompanyRecordsDoNotFeedAsset ==
    (Classified /\ rec.fn = "asset") =>
        rec.result = calculate_asset_recommendation(WithoutCompanyRecords, rec.id)

\* the type the thresholds of the classifier give for an investment score
TypeOf(fn, x) ==
    IF fn = "company_no_ai"
    THEN IF AtLeast(x, 60) THEN "invest"
         ELSE IF AtLeast(x, 40) THEN "hold" ELSE "dont_invest"
    ELSE IF AtLeast(x, 55) THEN "invest"
         ELSE IF AtLeast(x, 40) THEN "hold" ELSE "dont_invest"

\* C27: in every result the returned type is the one the classifier's
\* thresholds give for the returned, rounded investment score (a returned 55
\* comes with invest, and a returned 60 without sentiment comes with invest).
C27_TypeMatchesReturnedScore ==
    Blended =>
        blended.result.recommendation_type =
            TypeOf(blended.fn, blended.result.investment_score)

(***************************************************************************)
(* Properties of the price window of the classifiers.                      *)
(***************************************************************************)
WindowDates == (today - 60) .. today

\* the dates on which the subject of a classification has a stored price
PricedDates(fn, id) ==
    IF fn = "asset"
    THEN {asset_price[k].date : k \in {j \in 1 .. Len(asset_price) : asset_price[j].asset_id = id}}
    ELSE {stock_price[k].date : k \in {j \in 1 .. Len(stock_price) : stock_price[j].company_id = id}}

UnpricedInWindow(fn, id) == WindowDates \ PricedDates(fn, id)

\* the series each classifier hands to calculate_price_score lies in the window
SeriesInWindow ==
    /\ \A c \in Companies :
          LET s == fetch_company_prices(db, c)
          IN  Len(s) <= 61 /\ \A k \in 1 .. Len(s) : s[k].date \in WindowDates
    /\ \A a \in Assets :
          LET s == fetch_asset_prices(db, a)
          IN  Len(s) <= 61 /\ \A k \in 1 .. Len(s) : s[k].date \in WindowDates

\* a classification made on two or more unpriced dates of the window
ClassifiedOnGaps ==
    (rec' # NoValue /\ rec' # rec /\ Cardinality(UnpricedInWindow(rec'.fn, rec'.id)) >= 2)
        => rec'.result.price_score = FromInt(50)

\* C30: the price series of a classifier holds only points of today and the
\* 60 days before, at most 61; when two or more dates of that window have no
\* price the price score of the recommendation is exactly 50, whatever the
\* prices and however much older history is stored.
C30_WindowOfSixtyDays == [](SeriesInWindow) /\ [][ClassifiedOnGaps]_vars

\* a company priced 5 days a week, with more than 60 stored prices that rise
C30_Witness ==
    /\ Classified
    /\ rec.fn = "company_with_ai"
    /\ rec.id = 1
    /\ Cardinality(UnpricedInWindow(rec.fn, rec.id)) >= 2
    /\ Cardinality(PricedDates(rec.fn, rec.id)) > 60
    /\ \E k \in 1 .. Len(stock_price) : stock_price[k].close_price = MaxPrice
    /\ \E k \in 1 .. Len(stock_price) : stock_price[k].close_price = 1
    /\ rec.result.price_score = FromInt(50)

(***************************************************************************)
(* Properties of the recommendation tasks.                                 *)
(***************************************************************************)
Batches == {cb, ab}

\* the subjects attempted so far are the first ones of the listing, in order,
\* one line each
AttemptedInOrder(b) ==
    /\ Len(b.printed) = b.i - 1
    /\ Len(b.printed) <= Len(b.subjects)
    /\ \A k \in 1 .. Len(b.printed) : b.printed[k].id = b.subjects[k]

BatchIsolation(b) ==
    /\ AttemptedInOrder(b)
    /\ b.pc = "raised" => b.printed = <<>>
    /\ b.pc = "returned" =>
          /\ Len(b.printed) = Len(b.subjects)
          /\ b.ret = [updated_count |-> b.updated_count]

\* C21: an exception in one subject's iteration is caught in the loop: each
\* batch runner attempts every listed subject exactly once, in listing order,
\* whichever of them fail, and a started loop ends with the task returning
\* its updated_count.
C21_PerSubjectIsolation ==
    /\ [](\A b \in Batches : BatchIsolation(b))
    /\ (cb.pc = "loop") ~> (cb.pc = "returned")
    /\ (ab.pc = "loop") ~> (ab.pc = "returned")

\* a company batch that went on after its first subject failed
C21_Witness ==
    /\ cb.pc = "returned"
    /\ Len(cb.subjects) = 2
    /\ cb.printed[1].line = "Error updating recommendation"
    /\ cb.printed[2].line = "Updated recommendation"
    /\ cb.ret.updated_count = 1


\* the company whose iteration a step of the company batch has just run
CompanyIterated == cb.pc = "loop" /\ cb'.i = cb.i + 1

LastPrinted(b) == b.printed[Len(b.printed)]

\* the step called the generator, which returned its error, and no database
\* call raised
GeneratorFailedOnly ==
    /\ CompanyIterated
    /\ LastPrinted(cb').e \notin DbFaults \ {"none"}
    /\ cb'.rationale_result = [error |-> TRUE]

\* C22: in update_company_recommendations a failed rationale generator does
\* not reach the loop as an exception: the company's row is inserted with the
\* classifier's recommendation_type, investment_score and risk_level and with
\* the templated summary of the price, financial and sentiment scores.
C22_GeneratorFailureStillStored ==
    [][GeneratorFailedOnly =>
          LET c == cb.subjects[cb.i]
              r == calculate_company_recommendation_with_ai(db, c)
          IN  /\ LastPrinted(cb') = Printed(c, "Updated recommendation", "none")
              /\ cb'.updated_count = cb.updated_count + 1
              /\ investment_recommendation' =
                    investment_recommendation (+)
                       SetToBag({[company_id |-> c,
                                  asset_id |-> Null,
                                  recommendation_type |-> r.recommendation_type,
                                  investment_score |-> r.investment_score,
                                  risk_level |-> r.risk_level,
                                  rationale_summary |->
                                     [kind |-> "scores",
                                      price_score |-> r.price_score,
                                      financial_score |-> r.financial_score,
                                      sentiment_score |-> r.sentiment_score],
                                  run |-> cb.run]})]_vars

\* a row stored with the templated summary while the generator's error is
\* the last rationale_result
C22_Witness ==
    /\ cb.rationale_result = [error |-> TRUE]
    /\ Len(cb.printed) > 0
    /\ LastPrinted(cb).line = "Updated recommendation"
    /\ \E row \in BagToSet(investment_recommendation) :
          /\ row.run = cb.run
          /\ row.company_id = LastPrinted(cb).id
          /\ row.rationale_summary.kind = "scores"


\* what a stored row advises
Advice(row) ==
    <<row.recommendation_type, row.investment_score, row.risk_level>>

\* the rows the company batch stores for company c when nothing raises
BatchRowsFor(c) ==
    UNION {BagToSet(update_company_iteration(
                       [IdleBatch EXCEPT !.pc = "loop", !.subjects = <<c>>],
                       "none", gen).rows) : gen \in GeneratorOutcomes}

\* C24: update_single_company stores for a company the recommendation_type,
\* investment_score and risk_level that update_company_recommendations stores
\* for it on the same data, and when the classification or the insert raises
\* it returns {success: False, error} with no row stored.
C24_SingleMatchesBatch ==
    [][single' # single =>
          IF single'.ret.success
          THEN \E row \in BagToSet(investment_recommendation') :
                  /\ investment_recommendation' =
                        investment_recommendation (+) SetToBag({row})
                  /\ row.company_id = single'.company_id
                  /\ row.run = single'.run
                  /\ BatchRowsFor(single'.company_id) # {}
                  /\ \A stored \in BatchRowsFor(single'.company_id) :
                        Advice(stored) = Advice(row)
          ELSE /\ DOMAIN single'.ret = {"success", "error"}
               /\ investment_recommendation' = investment_recommendation]_vars

\* the batch and the on-demand run have both stored a row for one company
C24_Witness ==
    /\ single # NoValue
    /\ single.ret.success
    /\ \E row, stored \in BagToSet(investment_recommendation) :
          /\ row.run = single.run
          /\ stored.run = cb.run
          /\ stored.company_id = row.company_id
          /\ Advice(stored) = Advice(row)

\* the on-demand run has failed and stored nothing
C24_WitnessFailure ==
    /\ single # NoValue
    /\ ~single.ret.success
    /\ \A row \in BagToSet(investment_recommendation) : row.run # single.run


\* what the classifier of a row's subject advises on the input records
ClassifiedAdvice(row) ==
    LET r == IF row.company_id # Null
             THEN calculate_company_recommendation_with_ai(db, row.company_id)
             ELSE calculate_asset_recommendation(db, row.asset_id)
    IN  <<r.recommendation_type, r.investment_score, r.risk_level>>

\* C25: on fixed input records, whatever the listing order, the interleaving
\* of the company batch, the asset batch and the single-company run, and
\* whichever steps of other subjects failed, every stored row carries the
\* recommendation_type, investment_score and risk_level that the classifier
\* gives its own subject.
C25_NoOrderingDependency ==
    \A row \in BagToSet(investment_recommendation) :
       /\ (row.company_id = Null) # (row.asset_id = Null)
       /\ Advice(row) = ClassifiedAdvice(row)

\* a company batch that lists company 2 first and whose first step failed has
\* stored company 1, and an asset batch started after it has stored the asset
C25_Witness ==
    /\ cb.subjects = <<2, 1>>
    /\ cb.pc = "returned"
    /\ cb.printed[1].line = "Error updating recommendation"
    /\ ab.pc = "returned"
    /\ ab.run > cb.run
    /\ \E row, other \in BagToSet(investment_recommendation) :
          /\ row.run = cb.run /\ row.company_id = 1
          /\ other.run = ab.run /\ other.asset_id = 1


\* the rows a run has committed
CommittedBy(run) ==
    LET rows == {row \in BagToSet(investment_recommendation) : row.run = run}
    IN  BagCardinality([row \in rows |-> investment_recommendation[row]])

\* the rows a run has committed for one subject
CommittedFor(run, id) ==
    {row \in BagToSet(investment_recommendation) :
        row.run = run /\ id \in {row.company_id, row.asset_id}}

BatchAccounting(b) ==
    /\ b.updated_count = CommittedBy(b.run)
    /\ \A k \in 1 .. Len(b.printed) :
          b.printed[k].line = "Error updating recommendation"
             => CommittedFor(b.run, b.printed[k].id) = {}
    /\ b.pc = "returned" =>
          /\ b.ret.updated_count = CommittedBy(b.run)
          /\ b.subjects = <<>> => b.ret.updated_count = 0 /\ b.printed = <<>>

\* C28: a batch run returns as updated_count the number of rows it has
\* committed; a subject whose classification or insert raised has no row of
\* that run and is not counted; a run over an empty listing returns 0 with
\* nothing classified and nothing inserted.
C28_BatchAccounting == \A b \in Batches : BatchAccounting(b)

\* a returned company run that failed on one of its two subjects, beside the
\* row of another run
C28_Witness ==
    /\ cb.pc = "returned"
    /\ Len(cb.subjects) = 2
    /\ cb.ret.updated_count = 1
    /\ CommittedBy(cb.run) = 1
    /\ BagCardinality(investment_recommendation) = 2

\* a returned run over an empty listing
C28_WitnessEmpty ==
    /\ ab.pc = "returned"
    /\ ab.subjects = <<>>
    /\ ab.ret.updated_count = 0
    /\ BagCardinality(investment_recommendation) > 0


\* the number of rows stored for a company, for an asset
RowsOfCompany(c) ==
    LET rows == {row \in BagToSet(investment_recommendation) : row.company_id = c}
    IN  BagCardinality([row \in rows |-> investment_recommendation[row]])

RowsOfAsset(a) ==
    LET rows == {row \in BagToSet(investment_recommendation) : row.asset_id = a}
    IN  BagCardinality([row \in rows |-> investment_recommendation[row]])

\* the step is a successful per-subject step for company c, for asset a
StoredCompany(c) ==
    \/ /\ cb.pc = "loop"
       /\ cb'.i = cb.i + 1
       /\ LastPrinted(cb') = Printed(c, "Updated recommendation", "none")
    \/ /\ single' # single
       /\ single'.company_id = c
       /\ single'.ret.success

StoredAsset(a) ==
    /\ ab.pc = "loop"
    /\ ab'.i = ab.i + 1
    /\ LastPrinted(ab') = Printed(a, "Updated recommendation", "none")

\* C29: the tasks only insert: no step removes or changes a stored row, and
\* a step adds one row for a subject exactly when it is a successful step of
\* that subject, so the rows of a subject count its successful steps and a
\* second run adds a second row.
C29_AppendOnly ==
    [][/\ investment_recommendation \sqsubseteq investment_recommendation'
       /\ \A c \in Companies :
             RowsOfCompany(c)' =
                RowsOfCompany(c) + (IF StoredCompany(c) THEN 1 ELSE 0)
       /\ \A a \in Assets :
             RowsOfAsset(a)' =
                RowsOfAsset(a) + (IF StoredAsset(a) THEN 1 ELSE 0)]_vars

\* the company batch, run again after a run that failed on one company, has
\* given the other company its second row
C29_Witness ==
    /\ single = NoValue
    /\ ab.pc = "idle"
    /\ cb.pc = "returned"
    /\ cb.run = 2
    /\ cb.ret.updated_count = 2
    /\ \E c \in Companies : RowsOfCompany(c) = 2
    /\ BagCardinality(investment_recommendation) = 3

====
